---- MODULE Spec2Model ----
(***************************************************************************)
(* Model of the agent orchestration engine of DevOps-Investigator-Ultra:   *)
(* the AgentLoop turn loop and its context budget, the                     *)
(* ToolExecutor router, the McpClient JSON-RPC client and the streaming    *)
(* assembler of AzureOpenAIClient.chatCompletionStream.                    *)
(*                                                                         *)
(* A JavaScript string is modelled as a sequence of one-character strings, *)
(* so that length, slice and concatenation are computed as the code        *)
(* computes them.                                                          *)
(***************************************************************************)
EXTENDS Integers, Sequences, FiniteSets, TLC

VARIABLES
    \* ---- AgentLoop (agent-loop.ts)
    options,            \* this.options: maxTurns and the four character limits
    messages,           \* this.messages
    turnCount,          \* this.turnCount
    pc,                 \* position of run(): idle, loopTop, awaitModel, awaitTools, returned, thrown
    retriedForContext,  \* local of run()
    response,           \* local of run(): the last ChatCompletionResponse
    results,            \* local of executeToolCalls(): the ToolResults so far
    result,             \* value run() returned
    aborted,            \* options.abortSignal.aborted
    userPrompt,         \* argument of run()
    \* observation of run(): what an instrumented test would record
    modelCalls,         \* number of chatCompletionStream calls made
    sent,               \* the transcript passed to the last chatCompletionStream call
    history,            \* the responses chatCompletionStream returned, in order
    modelFailures,      \* number of chatCompletionStream calls that threw
    abortSeen,          \* the check at the top of a turn found the signal aborted
    events,             \* the events passed to options.onEvent, in order
    failures,           \* the errors chatCompletionStream threw and what run did with them
    dispatched,         \* starts and ends of executeToolCall for the current response
    \* ---- AgentLoop.boundContent applied twice
    bcContent, bcMax, bcLabel, bcOnce, bcTwice, bcPc,
    \* ---- ToolExecutor.executeToolCall
    tePc, teCall, teOutcome, teInvoked,
    \* ---- McpClient
    requestId, pendingRequests, process, timers, wire, settled, fired,
    answeredBy,         \* per request, the response lines that settled it
    \* ---- McpClient: the stdout data handler and handleData's line buffer
    outStream,          \* the bytes the child writes to its stdout
    unread,             \* the bytes not yet delivered by a data event
    buffer,             \* this.buffer
    parsed,             \* the texts handed to JSON.parse, in order, by data event
    inFlightAtExit,     \* pendingRequests when the child last exited
    \* ---- a session: runInvestigationWithEvents / main around McpClient.connect
    sessionPc,          \* idle, connecting, running, returned, threw, connectFailed
    connectPc,          \* position of the timer callback of connect()
    connectOutcome,     \* the promise connect() returned: pending, resolved, rejected
    methods,            \* the method of every request sent, by id
    tools,              \* this.tools: none or stored
    signalAborted,      \* the session's abort signal has fired
    disconnects,        \* the calls of disconnect(): by whom, and whether a process was held
    kills,              \* number of times this.process.kill() was called
    \* ---- AzureOpenAIClient.chatCompletionStream
    stream, fullContent, toolCallsMap, finishReason, streamPc, streamOut, arrived,
    notified,
    \* ---- the GUI server: the investigate and stop request handlers
    isInvestigating,
    activeAbortController,  \* 0 for null, else the request whose handler created it
    handlers,           \* per investigate request: its route, position and reply
    abortedControllers, \* the controllers abort() was called on
    stopReply           \* the last reply to a stop request, and what ran then

loopVars == <<options, messages, turnCount, pc, retriedForContext, response, results,
              result, aborted, userPrompt, modelCalls, sent, history, modelFailures,
              abortSeen, events, failures, dispatched>>
bcVars == <<bcContent, bcMax, bcLabel, bcOnce, bcTwice, bcPc>>
teVars == <<tePc, teCall, teOutcome, teInvoked>>
mcpVars == <<requestId, pendingRequests, process, timers, wire, settled, fired,
             answeredBy>>
streamVars == <<stream, fullContent, toolCallsMap, finishReason, streamPc, streamOut, arrived,
                notified>>
sessVars == <<sessionPc, connectPc, connectOutcome, methods, tools, signalAborted,
              disconnects, kills>>
rdVars == <<outStream, unread, buffer, parsed, inFlightAtExit>>
guiVars == <<isInvestigating, activeAbortController, handlers, abortedControllers, stopReply>>
vars == <<loopVars, bcVars, teVars, mcpVars, streamVars, sessVars, rdVars, guiVars>>

\* what the actions of one component leave alone in the others
LoopFrame == UNCHANGED <<bcVars, teVars, mcpVars, streamVars, sessVars, rdVars, guiVars>>
BcFrame == UNCHANGED <<loopVars, teVars, mcpVars, streamVars, sessVars, rdVars, guiVars>>
TeFrame == UNCHANGED <<loopVars, bcVars, mcpVars, streamVars, sessVars, rdVars, guiVars>>
McpFrame == UNCHANGED <<loopVars, bcVars, teVars, streamVars, sessVars, rdVars, guiVars>>
StreamFrame == UNCHANGED <<loopVars, bcVars, teVars, mcpVars, sessVars, rdVars, guiVars>>
SessFrame == UNCHANGED <<loopVars, bcVars, teVars, streamVars, rdVars, guiVars>>
RdFrame == UNCHANGED <<loopVars, bcVars, teVars, streamVars, sessVars, guiVars>>
GuiFrame == UNCHANGED <<loopVars, bcVars, teVars, mcpVars, streamVars, sessVars, rdVars>>

Max(a, b) == IF a >= b THEN a ELSE b
Min(a, b) == IF a <= b THEN a ELSE b

(***************************************************************************)
(* Strings                                                                 *)
(***************************************************************************)
DigitChars == <<"0", "1", "2", "3", "4", "5", "6", "7", "8", "9">>

\* String(n) of a non-negative integer, as the template literal prints it
RECURSIVE ToDigits(_)
ToDigits(n) ==
    IF n < 10 THEN <<DigitChars[n + 1]>>
    ELSE ToDigits(n \div 10) \o <<DigitChars[(n % 10) + 1]>>

\* str.slice(0, k)
SliceHead(s, k) == SubSeq(s, 1, Min(k, Len(s)))
\* str.slice(-k), k > 0
SliceTail(s, k) == SubSeq(s, Max(1, Len(s) - k + 1), Len(s))

NL2 == <<"\n", "\n">>
TruncatedFrom == <<" ", "t", "r", "u", "n", "c", "a", "t", "e", "d", " ", "f", "r", "o", "m", " ">>
ToWord == <<" ", "t", "o", " ">>
CharsClose == <<" ", "c", "h", "a", "r", "s", "]">>
MessageWord == <<" ", "m", "e", "s", "s", "a", "g", "e">>

RoleText(role) ==
    CASE role = "system" -> <<"s", "y", "s", "t", "e", "m">>
      [] role = "user" -> <<"u", "s", "e", "r">>
      [] role = "assistant" -> <<"a", "s", "s", "i", "s", "t", "a", "n", "t">>
      [] role = "tool" -> <<"t", "o", "o", "l">>

\* the labels the code passes to boundContent
LabelToolMessage == RoleText("tool") \o MessageWord
LabelAssistantMessage == RoleText("assistant") \o MessageWord
LabelUserMessage == RoleText("user") \o MessageWord
LabelAssistantResponse == RoleText("assistant") \o <<" ", "r", "e", "s", "p", "o", "n", "s", "e">>
LabelToolResult == RoleText("tool") \o <<" ", "r", "e", "s", "u", "l", "t">>
LabelToolCallArgs(name) ==
    <<"t", "o", "o", "l", " ", "c", "a", "l", "l", " ", "a", "r", "g", "s", " ", "(">>
        \o name \o <<")">>
LabelRoleMessage(role) == RoleText(role) \o MessageWord

(***************************************************************************)
(* AgentLoop.boundContent: head/tail clamp with a marker line.             *)
(* Math.floor(maxChars * 0.6) equals (maxChars * 6) \div 10 for every      *)
(* integer in range: the double product rounds to the integer when         *)
(* maxChars is a multiple of 5 and stays on its side of it otherwise.      *)
(***************************************************************************)
boundContent(content, maxChars, label) ==
    IF Len(content) <= maxChars THEN content
    ELSE LET headLen == (maxChars * 6) \div 10
             tailLen == Max(0, maxChars - headLen)
             head == SliceHead(content, headLen)
             tail == IF tailLen > 0 THEN SliceTail(content, tailLen) ELSE <<>>
         IN head \o NL2 \o <<"[">> \o label \o TruncatedFrom \o ToDigits(Len(content))
                 \o ToWord \o ToDigits(maxChars) \o CharsClose \o NL2 \o tail

(***************************************************************************)
(* Transcript entries (ChatMessage) and tool calls (ToolCall)              *)
(***************************************************************************)
\* content: string | null is the pair isString, content
Message(role, isString, content, toolCalls, toolCallId) ==
    [role |-> role, isString |-> isString, content |-> content,
     tool_calls |-> toolCalls, tool_call_id |-> toolCallId]

ToolCallRec(id, name, arguments) == [id |-> id, name |-> name, arguments |-> arguments]

NoId == <<>>

EntryOverhead == 32

RECURSIVE SumSeq(_)
SumSeq(s) == IF s = <<>> THEN 0 ELSE Head(s) + SumSeq(Tail(s))

contentLength(message) ==
    (IF message.isString THEN Len(message.content) ELSE 0)
    + SumSeq([i \in 1..Len(message.tool_calls) |->
                Len(message.tool_calls[i].name) + Len(message.tool_calls[i].arguments)])
    + EntryOverhead

totalContextChars(msgs) == SumSeq([i \in 1..Len(msgs) |-> contentLength(msgs[i])])

boundToolCalls(toolCalls) ==
    [i \in 1..Len(toolCalls) |->
        [toolCalls[i] EXCEPT !.arguments =
            boundContent(toolCalls[i].arguments, options.maxToolCallArgsChars,
                         LabelToolCallArgs(toolCalls[i].name))]]

AggressiveToolLimit == 6000
AggressiveAssistantLimit == 8000
AggressiveUserLimit == 4000
UserLimit == 8000
AggressiveInitialUserLimit == 6000
InitialUserLimit == 12000

\* index is the TLA+ position: JavaScript index 1 is position 2
shrinkMessage(message, index, aggressive) ==
    LET toolLimit == IF aggressive THEN Min(options.maxToolResultChars, AggressiveToolLimit)
                     ELSE options.maxToolResultChars
        assistantLimit == IF aggressive
                          THEN Min(options.maxAssistantMessageChars, AggressiveAssistantLimit)
                          ELSE options.maxAssistantMessageChars
        userLimit == IF aggressive THEN AggressiveUserLimit ELSE UserLimit
        initialUserLimit == IF aggressive THEN AggressiveInitialUserLimit ELSE InitialUserLimit
        content ==
            IF ~message.isString THEN message.content
            ELSE CASE message.role = "tool" ->
                        boundContent(message.content, toolLimit, LabelToolMessage)
                   [] message.role = "assistant" ->
                        boundContent(message.content, assistantLimit, LabelAssistantMessage)
                   [] message.role = "user" ->
                        boundContent(message.content,
                                     IF index = 2 THEN initialUserLimit ELSE userLimit,
                                     LabelUserMessage)
                   [] OTHER -> message.content
    IN [message EXCEPT !.content = content, !.tool_calls = boundToolCalls(message.tool_calls)]

shrinkMessagesInPlace(msgs, aggressive) ==
    [i \in 1..Len(msgs) |-> shrinkMessage(msgs[i], i, aggressive)]

\* variant: the newest entry is removed
SpliceLast(msgs) == SubSeq(msgs, 1, Len(msgs) - 1)

\* messages.splice(1, 1): removes the entry at JavaScript index 1
SpliceOne(msgs) == <<msgs[1]>> \o SubSeq(msgs, 3, Len(msgs))

RECURSIVE DropWhileOverKeepThree(_, _)
\* variant: the loop stops one entry early
DropWhileOverKeepThree(msgs, maxChars) ==
    IF totalContextChars(msgs) > maxChars /\ Len(msgs) > 3
    THEN DropWhileOverKeepThree(SpliceOne(msgs), maxChars)
    ELSE msgs

RECURSIVE DropWhileOver(_, _)
DropWhileOver(msgs, maxChars) ==
    IF totalContextChars(msgs) > maxChars /\ Len(msgs) > 2
    THEN DropWhileOver(SpliceOne(msgs), maxChars)
    ELSE msgs

enforceContextBudget(msgs) ==
    LET shrunk == shrinkMessagesInPlace(msgs, FALSE)
        maxChars == options.maxContextChars
    IN IF Len(shrunk) <= 2 THEN shrunk
       ELSE LET dropped == DropWhileOver(shrunk, maxChars)
            IN IF totalContextChars(dropped) > maxChars
               THEN shrinkMessagesInPlace(dropped, TRUE)
               ELSE dropped

CompactTailCount == 8
CompactLimit == 4000

compactConversationAggressively(msgs) ==
    IF Len(msgs) <= 2 THEN msgs
    ELSE LET system == msgs[1]
             last == SubSeq(msgs, Max(1, Len(msgs) - CompactTailCount + 1), Len(msgs))
             tail == [i \in 1..Len(last) |->
                        IF last[i].isString
                        THEN [last[i] EXCEPT !.content =
                                boundContent(last[i].content, CompactLimit,
                                             LabelRoleMessage(last[i].role))]
                        ELSE last[i]]
         IN enforceContextBudget(shrinkMessagesInPlace(<<system>> \o tail, TRUE))

(***************************************************************************)
(* Inputs of a run: prompts, model responses, model errors, tool results   *)
(***************************************************************************)
ShortText == <<"o", "k">>
LongText == <<"a", "b", "c", "d", "e", "f", "g", "h", "i">>
SystemText == <<"S">>
Prompts == {<<"g", "o">>, <<"f", "i", "x", " ", "4", "2">>}

NameAdo == <<"a", "d", "o", "_", "x">>
NameLocal == <<"l", "o", "c", "a", "l", "_", "y">>
ArgsShort == <<"{", "}">>
ArgsLong == <<"{", "\"", "k", "\"", ":", "1", "}">>

MaxTurns == 3

ContextChoices == {110, 100000}
ToolResultChoices == {6}
AssistantChoices == {6}
ToolCallArgsChoices == {4}

OptionsSet ==
    [maxTurns : 0..MaxTurns,
     maxContextChars : ContextChoices,
     maxToolResultChars : ToolResultChoices,
     maxAssistantMessageChars : AssistantChoices,
     maxToolCallArgsChars : ToolCallArgsChoices]

Response(isString, content, toolCalls, reason) ==
    [isString |-> isString, content |-> content, toolCalls |-> toolCalls,
     finishReason |-> reason]

\* the responses the n-th model call may return; the model assigns the call ids
Responses(n) ==
    LET one == <<ToolCallRec(<<n, 1>>, NameAdo, ArgsShort)>>
        two == <<ToolCallRec(<<n, 1>>, NameLocal, ArgsLong),
                 ToolCallRec(<<n, 2>>, NameAdo, ArgsShort)>>
    IN {Response(TRUE, ShortText, <<>>, "stop"),
        Response(FALSE, <<>>, <<>>, "length"),
        Response(FALSE, <<>>, one, "tool_calls"),
        Response(TRUE, LongText, two, "tool_calls"),
        Response(TRUE, ShortText, one, "stop"),
        Response(FALSE, <<>>, one, "stop")}

\* what isContextLengthError and isAbortError answer for a thrown error
ModelErrors == [context : BOOLEAN, abort : BOOLEAN]

\* the content executeToolCall resolves with
ToolContents == {ShortText, LongText}

(***************************************************************************)
(* AgentLoop.run                                                           *)
(***************************************************************************)
NoResponse == Response(FALSE, <<>>, <<>>, "none")
NoResult == [kind |-> "none", text |-> <<>>]
Cancelled == [kind |-> "cancelled", text |-> <<>>]
MaxTurnsReached == [kind |-> "max_turns", text |-> <<>>]
TextResult(text) == [kind |-> "text", text |-> text]

\* an AgentLoopEvent without the payload of its type
Event(type) == [type |-> type]

\* variant: the turn event is emitted before the turn is counted
TurnEventBeforeCount(turn, maxTurns) ==
    [type |-> "turn", turn |-> turn - 1, maxTurns |-> maxTurns]

\* { type: "turn", turn: this.turnCount, maxTurns: this.options.maxTurns }
TurnEvent(turn, maxTurns) == [type |-> "turn", turn |-> turn, maxTurns |-> maxTurns]

\* { type: "complete", result }
CompleteEvent(text) == [type |-> "complete", result |-> text]

LoopInit ==
    /\ options \in OptionsSet
    /\ messages = <<>>
    /\ turnCount = 0
    /\ pc = "idle"
    /\ retriedForContext = FALSE
    /\ response = NoResponse
    /\ results = <<>>
    /\ result = NoResult
    /\ aborted = FALSE
    /\ userPrompt = <<>>
    /\ modelCalls = 0
    /\ sent = <<>>
    /\ history = <<>>
    /\ modelFailures = 0
    /\ abortSeen = FALSE
    /\ events = <<>>
    /\ failures = <<>>
    /\ dispatched = <<>>

\* run(userPrompt) up to the first evaluation of the while condition
Run(prompt) ==
    /\ pc = "idle"
    /\ userPrompt' = prompt
    /\ messages' = <<Message("system", TRUE, SystemText, <<>>, NoId),
                     Message("user", TRUE, prompt, <<>>, NoId)>>
    /\ turnCount' = 0
    /\ pc' = "loopTop"
    /\ events' = Append(events, Event("start"))
    /\ UNCHANGED <<options, retriedForContext, response, results, result, aborted,
                   modelCalls, sent, history, modelFailures, abortSeen, failures,
                   dispatched>>
    /\ LoopFrame

\* variant: the loop body runs once before the limit is looked at
TurnsLeftOrFirst == turnCount < options.maxTurns \/ turnCount = 0

\* variant: the loop condition admits one more turn
TurnsLeftInclusive == turnCount <= options.maxTurns

\* while (this.turnCount < this.options.maxTurns)
TurnsLeft == turnCount < options.maxTurns

\* variant: the signal is looked at before the first turn only
AbortCheckedAtStartOnly == aborted /\ turnCount = 0

\* if (this.options.abortSignal?.aborted)
AbortRequested == aborted

\* the top of a turn, up to the await of chatCompletionStream
LoopTop ==
    /\ pc = "loopTop"
    /\ IF ~TurnsLeft
       THEN /\ pc' = "returned"
            /\ result' = MaxTurnsReached
            /\ events' = Append(events, Event("max_turns"))
            /\ UNCHANGED <<messages, turnCount, retriedForContext, modelCalls, sent,
                           abortSeen>>
       ELSE IF AbortRequested
       THEN /\ pc' = "returned"
            /\ result' = Cancelled
            /\ abortSeen' = TRUE
            /\ events' = Append(events, Event("canceled"))
            /\ UNCHANGED <<messages, turnCount, retriedForContext, modelCalls, sent>>
       ELSE /\ turnCount' = turnCount + 1
            /\ messages' = enforceContextBudget(messages)
            /\ retriedForContext' = FALSE
            /\ modelCalls' = modelCalls + 1
            /\ sent' = messages'
            /\ pc' = "awaitModel"
            /\ events' = Append(events, TurnEvent(turnCount', options.maxTurns))
            /\ UNCHANGED <<result, abortSeen>>
    /\ UNCHANGED <<options, response, results, aborted, userPrompt, history, modelFailures,
                   failures, dispatched>>
    /\ LoopFrame

\* the assistant entry pushed for a response, if any
AssistantEntries(r) ==
    IF r.isString
    THEN <<Message("assistant", TRUE,
                   boundContent(r.content, options.maxAssistantMessageChars,
                                LabelAssistantResponse),
                   boundToolCalls(r.toolCalls), NoId)>>
    ELSE IF Len(r.toolCalls) > 0
    THEN <<Message("assistant", FALSE, <<>>, boundToolCalls(r.toolCalls), NoId)>>
    ELSE <<>>

\* variant: only a response without tool calls ends the loop
IsFinalWithoutCalls(r) == Len(r.toolCalls) = 0

\* if (response.toolCalls.length === 0 || response.finishReason === "stop")
IsFinal(r) == Len(r.toolCalls) = 0 \/ r.finishReason = "stop"

\* onToolCall is called once for every tool call of the response
ToolCallEvents(r) == [i \in 1..Len(r.toolCalls) |-> Event("tool_call")]

\* variant: every call of the response is started at once
DispatchStartAll(calls, done) ==
    IF done = 0
    THEN [i \in 1..Len(calls) |-> [kind |-> "start", id |-> calls[i].id]]
    ELSE <<>>

\* for (const tc of toolCalls) { const result = await this.executeToolCall(tc); ... }:
\* what is started once `done` calls have completed
DispatchStart(calls, done) ==
    IF done < Len(calls)
    THEN <<[kind |-> "start", id |-> calls[done + 1].id]>>
    ELSE <<>>

\* chatCompletionStream resolves with r; run continues to its return or to the
\* await of executeToolCalls
ModelRespond(r) ==
    /\ pc = "awaitModel"
    /\ response' = r
    /\ history' = Append(history, r)
    /\ messages' = messages \o AssistantEntries(r)
    /\ IF IsFinal(r)
       THEN /\ pc' = "returned"
            /\ result' = TextResult(IF r.isString THEN r.content ELSE <<>>)
            /\ events' = events \o ToolCallEvents(r) \o <<CompleteEvent(result'.text)>>
            /\ dispatched' = <<>>
            /\ UNCHANGED results
       ELSE /\ pc' = "awaitTools"
            /\ results' = <<>>
            /\ events' = events \o ToolCallEvents(r)
            /\ dispatched' = DispatchStart(r.toolCalls, 0)
            /\ UNCHANGED result
    /\ UNCHANGED <<options, turnCount, retriedForContext, aborted, userPrompt, modelCalls,
                   sent, modelFailures, abortSeen, failures>>
    /\ LoopFrame

\* isContextLengthError(error)
isContextLengthError(e) == e.context

\* variant: no error is an abort error
isAbortErrorNever(e) == FALSE

\* variant: every error is an abort error
isAbortErrorAlways(e) == TRUE

\* isAbortError(error)
isAbortError(e) == e.abort

\* variant: a context-length error is never answered with a retry
CanRetryNever(e) == FALSE

\* variant: a context-length error is answered with a retry every time
CanRetryAlways(e) == isContextLengthError(e)

\* if (!retriedForContext && this.isContextLengthError(error))
CanRetry(e) == ~retriedForContext /\ isContextLengthError(e)

\* what run records of a failed call: the turn, what the two classifiers
\* answered for the error, whether the call was retried, and the number of
\* calls made by then. isAbortError is asked in the outer catch only, so it is
\* not asked for an error that was answered with a retry.
Failure(e, retried) ==
    [turn |-> turnCount, context |-> isContextLengthError(e),
     abort |-> ~retried /\ e.abort, retried |-> retried, calls |-> modelCalls]

\* chatCompletionStream rejects with an error e
ModelFail(e) ==
    /\ pc = "awaitModel"
    /\ modelFailures' = modelFailures + 1
    /\ IF CanRetry(e)
       THEN /\ retriedForContext' = TRUE
            /\ messages' = compactConversationAggressively(messages)
            /\ modelCalls' = modelCalls + 1
            /\ sent' = messages'
            /\ failures' = Append(failures, Failure(e, TRUE))
            /\ UNCHANGED <<pc, result, events>>
       ELSE /\ IF isAbortError(e)
               THEN /\ pc' = "returned"
                    /\ result' = Cancelled
                    /\ events' = Append(events, Event("canceled"))
               ELSE /\ pc' = "thrown"
                    /\ UNCHANGED <<result, events>>
            /\ failures' = Append(failures, Failure(e, FALSE))
            /\ UNCHANGED <<retriedForContext, messages, modelCalls, sent>>
    /\ UNCHANGED <<options, turnCount, response, results, aborted, userPrompt, history,
                   abortSeen, dispatched>>
    /\ LoopFrame

\* variant: the tool entries do not carry the id of the call they answer
ToolEntriesWithoutId(rs) ==
    [i \in 1..Len(rs) |->
        Message("tool", TRUE,
                boundContent(rs[i].content, options.maxToolResultChars, LabelToolResult),
                <<>>, NoId)]

\* the tool entries pushed for the results of executeToolCalls
ToolEntries(rs) ==
    [i \in 1..Len(rs) |->
        Message("tool", TRUE,
                boundContent(rs[i].content, options.maxToolResultChars, LabelToolResult),
                <<>>, rs[i].tool_call_id)]

\* executeToolCall of the next call resolves with content; after the last one
\* executeToolCalls resolves and run pushes the tool entries
ToolDone(content) ==
    /\ pc = "awaitTools"
    /\ LET call == response.toolCalls[Len(results) + 1]
           rs == Append(results, [tool_call_id |-> call.id, content |-> content])
       IN /\ dispatched' = dispatched \o <<[kind |-> "end", id |-> call.id]>>
                                       \o DispatchStart(response.toolCalls, Len(rs))
          /\ IF Len(rs) = Len(response.toolCalls)
             THEN /\ messages' = messages \o ToolEntries(rs)
                  /\ results' = rs
                  /\ events' = events \o [i \in 1..Len(rs) |-> Event("tool_result")]
                  /\ pc' = "loopTop"
             ELSE /\ results' = rs
                  /\ UNCHANGED <<messages, pc, events>>
    /\ UNCHANGED <<options, turnCount, retriedForContext, response, result, aborted,
                   userPrompt, modelCalls, sent, history, modelFailures, abortSeen,
                   failures>>
    /\ LoopFrame

\* the abort signal fires while run is suspended
Abort ==
    /\ pc \in {"idle", "loopTop", "awaitModel", "awaitTools"}
    /\ ~aborted
    /\ aborted' = TRUE
    /\ UNCHANGED <<options, messages, turnCount, pc, retriedForContext, response, results,
                   result, userPrompt, modelCalls, sent, history, modelFailures, abortSeen,
                   events, failures, dispatched>>
    /\ LoopFrame

LoopNext ==
    \/ \E prompt \in Prompts : Run(prompt)
    \/ LoopTop
    \/ \E r \in Responses(modelCalls) : ModelRespond(r)
    \/ \E e \in ModelErrors : ModelFail(e)
    \/ \E content \in ToolContents : ToolDone(content)
    \/ Abort

(***************************************************************************)
(* boundContent applied to its own output                                  *)
(***************************************************************************)
MaxContentLen == 4
MaxCeiling == 3

RECURSIVE Strings(_, _)
\* the strings over alphabet of length at most n
Strings(alphabet, n) ==
    IF n = 0 THEN {<<>>}
    ELSE LET shorter == Strings(alphabet, n - 1)
         IN shorter \cup {Append(s, c) : s \in shorter, c \in alphabet}

Labels == {LabelToolMessage, LabelAssistantMessage, LabelUserMessage}

BcIdle ==
    /\ bcContent = <<>>
    /\ bcMax = 1
    /\ bcLabel = LabelToolMessage
    /\ bcOnce = <<>>
    /\ bcTwice = <<>>
    /\ bcPc = "idle"

BcInit ==
    /\ bcContent \in Strings({"a", "b"}, MaxContentLen)
    /\ bcMax \in 1..MaxCeiling
    /\ bcLabel \in Labels
    /\ bcOnce = <<>>
    /\ bcTwice = <<>>
    /\ bcPc = "start"

\* a clamp pass
ClampOnce ==
    /\ bcPc = "start"
    /\ bcOnce' = boundContent(bcContent, bcMax, bcLabel)
    /\ bcPc' = "once"
    /\ UNCHANGED <<bcContent, bcMax, bcLabel, bcTwice>>
    /\ BcFrame

\* a second clamp pass with the same ceiling
ClampTwice ==
    /\ bcPc = "once"
    /\ bcTwice' = boundContent(bcOnce, bcMax, bcLabel)
    /\ bcPc' = "twice"
    /\ UNCHANGED <<bcContent, bcMax, bcLabel, bcOnce>>
    /\ BcFrame

BcNext == ClampOnce \/ ClampTwice

(***************************************************************************)
(* ToolExecutor.executeToolCall                                            *)
(***************************************************************************)
StartsWith(s, prefix) == Len(s) >= Len(prefix) /\ SubSeq(s, 1, Len(prefix)) = prefix
\* str.slice(k)
SliceFrom(s, k) == SubSeq(s, k + 1, Len(s))

AdoPrefix == <<"a", "d", "o", "_">>
LocalPrefix == <<"l", "o", "c", "a", "l", "_">>
NameOther == <<"f", "o", "o">>
ArgsBroken == <<"{">>
ArgsNull == <<"n", "u", "l", "l">>

\* JSON.parse succeeds on these argument texts and throws on the others
ValidJsonTexts == {ArgsShort, ArgsLong, ArgsNull}

\* variant: the argument text is not parsed before the routing
JsonParsesAlways(text) == TRUE

JsonParses(text) == text \in ValidJsonTexts

\* the names of the tools the MCP server lists (this.tools)
McpToolNames == {<<"x">>, <<>>, NameLocal}

\* getToolsAsOpenAIFunctions: name: `ado_${tool.name}`
ExposedName(tool) == AdoPrefix \o tool

\* variant: the name is forwarded with its prefix
McpToolNameUnstripped(name) == name

\* const mcpToolName = name.slice(4)
McpToolName(name) == SliceFrom(name, 4)

ParseErrorText ==
    <<"E", "r", "r", "o", "r", ":", " ", "C", "o", "u", "l", "d", " ", "n", "o", "t", " ",
    "p", "a", "r", "s", "e", " ", "a", "r", "g", "u", "m", "e", "n", "t", "s", ":", " ">>
UnknownPrefixText ==
    <<"E", "r", "r", "o", "r", ":", " ", "U", "n", "k", "n", "o", "w", "n", " ", "t", "o",
    "o", "l", " ", "p", "r", "e", "f", "i", "x", ".", " ", "E", "x", "p", "e", "c", "t",
    "e", "d", " ", "a", "d", "o", "_", "*", " ", "o", "r", " ", "l", "o", "c", "a", "l",
    "_", "*", ".", " ", "G", "o", "t", ":", " ">>
ErrorExecutingText ==
    <<"E", "r", "r", "o", "r", " ", "e", "x", "e", "c", "u", "t", "i", "n", "g", " ">>
TimeoutMessage ==
    <<"M", "C", "P", " ", "r", "e", "q", "u", "e", "s", "t", " ", "t", "i", "m", "e", "o",
    "u", "t", ":", " ", "t", "o", "o", "l", "s", "/", "c", "a", "l", "l">>
UnknownLocalMessage ==
    <<"U", "n", "k", "n", "o", "w", "n", " ", "l", "o", "c", "a", "l", " ", "t", "o", "o",
    "l", ":", " ">>

TeCalls ==
    {ToolCallRec(id, name, arguments) :
        id \in {<<1, 1>>, <<1, 2>>},
        name \in {ExposedName(tool) : tool \in McpToolNames} \cup {NameLocal, NameOther},
        arguments \in {ArgsShort, ArgsLong, ArgsBroken, ArgsNull}}

\* what an awaited tool may resolve with, and the messages of what it may throw
TeToolTexts == {ShortText, LongText}
TeToolErrors == {TimeoutMessage, UnknownLocalMessage \o NameLocal}

NotInvoked == [target |-> "none", name |-> <<>>]
TePending == [state |-> "pending", tool_call_id |-> NoId, content |-> <<>>]
TeResolved(call, content) ==
    [state |-> "resolved", tool_call_id |-> call.id, content |-> content]
TeRejected(call, message) ==
    [state |-> "rejected", tool_call_id |-> NoId, content |-> message]

TeIdle ==
    /\ tePc = "idle"
    /\ teCall = ToolCallRec(NoId, <<>>, <<>>)
    /\ teOutcome = TePending
    /\ teInvoked = NotInvoked

TeInit ==
    /\ tePc = "start"
    /\ teCall \in TeCalls
    /\ teOutcome = TePending
    /\ teInvoked = NotInvoked

\* try { args = JSON.parse(...) } catch { return {...} }
OnParseError(call) == TeResolved(call, ParseErrorText \o call.arguments)

\* the else branch of the routing
OnUnknownPrefix(call) == TeResolved(call, UnknownPrefixText \o call.name)

\* return { tool_call_id: toolCall.id, content: result }
OnToolResult(call, text) == TeResolved(call, text)

\* variant: the error of the routed tool is not caught
OnToolThrowUncaught(call, message) == TeRejected(call, message)

\* catch (err) { return {...} }
OnToolThrow(call, message) ==
    TeResolved(call, ErrorExecutingText \o call.name \o <<":", " ">> \o message)

\* executeToolCall up to its return or its await of the routed tool
TeStart ==
    /\ tePc = "start"
    /\ IF ~JsonParses(teCall.arguments)
       THEN /\ teOutcome' = OnParseError(teCall)
            /\ tePc' = "done"
            /\ UNCHANGED teInvoked
       ELSE IF StartsWith(teCall.name, AdoPrefix)
       THEN /\ teInvoked' = [target |-> "mcp", name |-> McpToolName(teCall.name)]
            /\ tePc' = "await"
            /\ UNCHANGED teOutcome
       ELSE IF StartsWith(teCall.name, LocalPrefix)
       THEN /\ teInvoked' = [target |-> "local", name |-> teCall.name]
            /\ tePc' = "await"
            /\ UNCHANGED teOutcome
       ELSE /\ teOutcome' = OnUnknownPrefix(teCall)
            /\ tePc' = "done"
            /\ UNCHANGED teInvoked
    /\ UNCHANGED teCall
    /\ TeFrame

\* the awaited executeTool resolves with text
TeToolReturns(text) ==
    /\ tePc = "await"
    /\ teOutcome' = OnToolResult(teCall, text)
    /\ tePc' = "done"
    /\ UNCHANGED <<teCall, teInvoked>>
    /\ TeFrame

\* the awaited executeTool rejects with an Error carrying message
TeToolThrows(message) ==
    /\ tePc = "await"
    /\ teOutcome' = OnToolThrow(teCall, message)
    /\ tePc' = "done"
    /\ UNCHANGED <<teCall, teInvoked>>
    /\ TeFrame

TeNext ==
    \/ TeStart
    \/ \E text \in TeToolTexts : TeToolReturns(text)
    \/ \E message \in TeToolErrors : TeToolThrows(message)

(***************************************************************************)
(* McpClient: requests, responses and timeouts                             *)
(***************************************************************************)
MaxRequests == 2

RequestIds == 1..MaxRequests

\* a line of the child's output: not JSON, or a JSON message with an id
\* (0 stands for an id no request was given) and possibly an error member
Lines == {[json |-> FALSE, id |-> 0, error |-> FALSE]}
            \cup [json : {TRUE}, id : 0..MaxRequests, error : BOOLEAN]

\* the complete lines of one data event
Chunks == {<<l>> : l \in Lines} \cup {<<l1, l2>> : l1 \in Lines, l2 \in Lines}

McpIdle ==
    /\ requestId = 0
    /\ pendingRequests = {}
    /\ process = "null"
    /\ timers = {}
    /\ wire = <<>>
    /\ settled = [id \in RequestIds |-> <<>>]
    /\ fired = {}
    /\ answeredBy = [id \in RequestIds |-> <<>>]

McpInit == McpIdle

\* connect(): this.process = spawn(...)
Spawn ==
    /\ process = "null"
    /\ process' = "alive"
    /\ UNCHANGED <<requestId, pendingRequests, timers, wire, settled, fired, answeredBy>>
    /\ McpFrame

\* the exit codes of the "exit" event: zero, non-zero, null (killed by a signal)
ExitCodes == {"0", "1", "null"}

\* variant: a failed child takes the requests in flight with it
PendingDroppedOnFailure(code) == IF code = "1" THEN {} ELSE pendingRequests

\* the pending map after the exit handler, which only logs a non-zero code
PendingAfterExit(code) == pendingRequests

\* the child exits by itself with the given code
ProcessExit(code) ==
    /\ process = "alive"
    /\ process' = "exited"
    /\ pendingRequests' = PendingAfterExit(code)
    /\ UNCHANGED <<requestId, timers, wire, settled, fired, answeredBy>>
    /\ UNCHANGED <<outStream, unread, buffer, parsed>>
    /\ RdFrame

\* the exit, with the requests in flight at that moment left unrecorded or
\* recorded
Exit(code) == ProcessExit(code) /\ UNCHANGED inFlightAtExit
ObservedExit(code) == ProcessExit(code) /\ inFlightAtExit' = pendingRequests

\* disconnect()
Disconnect ==
    /\ process' = "null"
    /\ UNCHANGED <<requestId, pendingRequests, timers, wire, settled, fired, answeredBy>>
    /\ McpFrame

\* variant: the timer is armed only when the request could be written
ArmTimerIfWritten(id) == IF process = "alive" THEN timers \cup {id} ELSE timers

\* setTimeout(..., 30_000) of sendRequest: the timers armed after it
ArmTimer(id) == timers \cup {id}

\* variant: the counter is not advanced once it has left 0
StaleId == IF requestId = 0 THEN 1 ELSE requestId

\* const id = ++this.requestId
FreshId == requestId + 1

\* sendRequest: the id is taken, the entry stored, the line written when there
\* is a process, and the timer armed
SendRequest ==
    /\ requestId < MaxRequests
    /\ LET id == FreshId
       IN /\ requestId' = id
          /\ pendingRequests' = pendingRequests \cup {id}
          /\ wire' = IF process # "null" THEN Append(wire, id) ELSE wire
          /\ timers' = ArmTimer(id)
    /\ UNCHANGED <<process, settled, fired, answeredBy>>
    /\ McpFrame

\* if (message.id !== undefined && this.pendingRequests.has(message.id))
Matches(line, pending) == line.json /\ line.id \in pending

\* the entries left after a matching line: this.pendingRequests.delete(message.id)
AfterMatch(pending, id) == pending \ {id}

\* variant: a response settles the oldest request in flight
TargetOldest(line, pending) == CHOOSE id \in pending : \A other \in pending : id <= other

\* const pending = this.pendingRequests.get(message.id)!: the request a
\* matching line settles
Target(line, pending) == line.id

\* pending.reject(new Error(message.error.message)) or
\* pending.resolve(message.result)
Outcome(line) == IF line.error THEN "rejected" ELSE "resolved"

\* variant: a line that is not JSON ends the handling of the data event
AfterLineOrStop(line, lines) == IF line.json THEN Tail(lines) ELSE <<>>

\* the lines left after one that settles nothing: the catch is inside the
\* for loop, which goes on with the next line
AfterLine(line, lines) == Tail(lines)

RECURSIVE HandleLines(_, _, _, _)
\* the for loop of handleData over the complete lines: the pending map, the
\* settlements and the lines that made them after it
HandleLines(lines, pending, done, by) ==
    IF lines = <<>> THEN [pending |-> pending, settled |-> done, answeredBy |-> by]
    ELSE LET line == Head(lines)
             id == Target(line, pending)
         IN IF Matches(line, pending)
            THEN HandleLines(Tail(lines), AfterMatch(pending, line.id),
                             [done EXCEPT ![id] = Append(@, Outcome(line))],
                             [by EXCEPT ![id] = Append(@, line)])
            ELSE HandleLines(AfterLine(line, lines), pending, done, by)

\* a data event of the child's stdout carrying complete lines
HandleData(lines) ==
    /\ LET after == HandleLines(lines, pendingRequests, settled, answeredBy)
       IN /\ pendingRequests' = after.pending
          /\ settled' = after.settled
          /\ answeredBy' = after.answeredBy
    /\ UNCHANGED <<requestId, process, timers, wire, fired>>
    /\ McpFrame

\* variant: the timer callback rejects without looking at the map
TimeoutAlways(id) == TRUE

\* if (this.pendingRequests.has(id)) in the timer callback
TimeoutApplies(id) == id \in pendingRequests

\* the 30 s timer of request id fires
TimerFire(id) ==
    /\ id \in timers
    /\ timers' = timers \ {id}
    /\ fired' = fired \cup {id}
    /\ IF TimeoutApplies(id)
       THEN /\ pendingRequests' = pendingRequests \ {id}
            /\ settled' = [settled EXCEPT ![id] = Append(@, "timeout")]
       ELSE UNCHANGED <<pendingRequests, settled>>
    /\ UNCHANGED <<requestId, process, wire, answeredBy>>
    /\ McpFrame

McpNext ==
    \/ Spawn
    \/ \E code \in ExitCodes : Exit(code)
    \/ Disconnect
    \/ SendRequest
    \/ \E lines \in Chunks : HandleData(lines)
    \/ \E id \in RequestIds : TimerFire(id)

(***************************************************************************)
(* McpClient: the stdout data handler and handleData                       *)
(***************************************************************************)
MaxLinesOut == 3

\* bytes are written as the ASCII character they encode; ByteC3 and ByteA9 are
\* the two bytes of the UTF-8 encoding of U+00E9
ByteC3 == "C3"
ByteA9 == "A9"
CharE9 == "U+00E9"
CharFFFD == "U+FFFD"

\* {"id":
IdOpen == <<"{", "\"", "i", "d", "\"", ":">>
\* ,"result":"
ResultOpen == <<",", "\"", "r", "e", "s", "u", "l", "t", "\"", ":", "\"">>
\* ,"error":1
ErrorMember == <<",", "\"", "e", "r", "r", "o", "r", "\"", ":", "1">>

\* the lines a child writes: a response with a result text, a response with
\* an error member and a carriage return, a line that is not JSON, a blank line
RespResult == IdOpen \o <<"1">> \o ResultOpen \o <<ByteC3, ByteA9, "\"", "}">>
RespError == IdOpen \o <<"2">> \o ErrorMember \o <<"}", "\r">>
Noise == <<"x">>
Blank == <<" ">>
OutLines == {RespResult, RespError, Noise, Blank}

RECURSIVE JoinLines(_)
JoinLines(ls) == IF ls = <<>> THEN <<>> ELSE Head(ls) \o <<"\n">> \o JoinLines(Tail(ls))

\* the output of a child: complete lines, each request answered at most once;
\* until the last byte has been delivered, the bytes delivered end with a
\* partial line
OutStreams ==
    {JoinLines(ls) :
        ls \in {l \in UNION {[1..n -> OutLines] : n \in 1..MaxLinesOut} :
                    \A i, j \in 1..Len(l) :
                        (i # j /\ l[i] = l[j]) => l[i] \in {Noise, Blank}}}

\* data.toString(): UTF-8 decoding of the bytes of one data event; a byte
\* sequence that is not complete within the event becomes U+FFFD
Decode(bytes) ==
    LET Skip == "skip"
        Char(i) ==
            IF bytes[i] = ByteC3
            THEN IF i < Len(bytes) /\ bytes[i + 1] = ByteA9 THEN CharE9 ELSE CharFFFD
            ELSE IF bytes[i] = ByteA9
            THEN IF i > 1 /\ bytes[i - 1] = ByteC3 THEN Skip ELSE CharFFFD
            ELSE bytes[i]
        Kept(c) == c # Skip
    IN SelectSeq([i \in 1..Len(bytes) |-> Char(i)], Kept)

\* str.split("\n")
Split(s) ==
    LET at == {i \in 1..Len(s) : s[i] = "\n"}
        Cut(k) == IF k = 0 THEN 0
                  ELSE IF k > Cardinality(at) THEN Len(s) + 1
                  ELSE CHOOSE i \in at : Cardinality({j \in at : j < i}) = k - 1
    IN [k \in 1..(Cardinality(at) + 1) |-> SubSeq(s, Cut(k - 1) + 1, Cut(k) - 1)]

WhiteSpace == {" ", "\r", "\t", "\n"}

RECURSIVE TrimStart(_)
TrimStart(s) == IF s # <<>> /\ Head(s) \in WhiteSpace THEN TrimStart(Tail(s)) ELSE s
RECURSIVE TrimEnd(_)
TrimEnd(s) ==
    IF s # <<>> /\ s[Len(s)] \in WhiteSpace THEN TrimEnd(SubSeq(s, 1, Len(s) - 1)) ELSE s
\* line.trim()
Trim(s) == TrimEnd(TrimStart(s))

\* the trimmed lines that are not empty: if (!trimmed) continue
ToParse(lines) ==
    LET NotEmpty(t) == t # <<>>
    IN SelectSeq([i \in 1..Len(lines) |-> Trim(lines[i])], NotEmpty)

NotJson == [json |-> FALSE, id |-> 0, error |-> FALSE]

\* JSON.parse(trimmed), on the texts a stream of OutLines can give: what
\* handleData reads of the message
ParseJson(text) ==
    IF /\ Len(text) >= Len(IdOpen) + 2
       /\ StartsWith(text, IdOpen)
       /\ \E d \in 1..Len(DigitChars) : DigitChars[d] = text[Len(IdOpen) + 1]
       /\ text[Len(text)] = "}"
    THEN LET id == (CHOOSE d \in 1..Len(DigitChars) :
                        DigitChars[d] = text[Len(IdOpen) + 1]) - 1
             rest == SubSeq(text, Len(IdOpen) + 2, Len(text) - 1)
         IN IF rest = <<>> THEN [json |-> TRUE, id |-> id, error |-> FALSE]
            ELSE IF rest = ErrorMember THEN [json |-> TRUE, id |-> id, error |-> TRUE]
            ELSE IF /\ StartsWith(rest, ResultOpen)
                    /\ Len(rest) > Len(ResultOpen)
                    /\ rest[Len(rest)] = "\""
                    /\ \A i \in (Len(ResultOpen) + 1)..(Len(rest) - 1) :
                            rest[i] \notin {"\"", "\\"}
            THEN [json |-> TRUE, id |-> id, error |-> FALSE]
            ELSE NotJson
    ELSE NotJson

RdIdle ==
    /\ outStream = <<>>
    /\ unread = <<>>
    /\ buffer = <<>>
    /\ parsed = <<>>
    /\ inFlightAtExit = {}

\* every request has been sent and the child starts to answer
RdInit ==
    /\ requestId = MaxRequests
    /\ pendingRequests = RequestIds
    /\ process = "alive"
    /\ timers = RequestIds
    /\ wire = [i \in RequestIds |-> i]
    /\ settled = [id \in RequestIds |-> <<>>]
    /\ fired = {}
    /\ answeredBy = [id \in RequestIds |-> <<>>]
    /\ outStream \in OutStreams
    /\ unread = outStream
    /\ buffer = <<>>
    /\ parsed = <<>>
    /\ inFlightAtExit = {}

\* a data event of the child's stdout delivers the next k bytes:
\* this.handleData(data.toString())
OnData(k) ==
    /\ k \in 1..Len(unread)
    /\ LET data == Decode(SubSeq(unread, 1, k))
           lines == Split(buffer \o data)
           complete == SubSeq(lines, 1, Len(lines) - 1)
           texts == ToParse(complete)
           after == HandleLines([i \in 1..Len(texts) |-> ParseJson(texts[i])],
                                pendingRequests, settled, answeredBy)
       IN /\ buffer' = lines[Len(lines)]
          /\ parsed' = IF texts = <<>> THEN parsed ELSE Append(parsed, texts)
          /\ pendingRequests' = after.pending
          /\ settled' = after.settled
          /\ answeredBy' = after.answeredBy
    /\ unread' = SubSeq(unread, k + 1, Len(unread))
    /\ UNCHANGED <<outStream, inFlightAtExit, requestId, process, timers, wire, fired>>
    /\ RdFrame

RdNext == \E k \in 1..(Len(outStream) + 1) : OnData(k)

(***************************************************************************)
(* A session: McpClient.connect, the run between connect and disconnect,   *)
(* the abort handler and the finally block                                 *)
(***************************************************************************)
MaxToolCalls == 1

\* the ids of the requests of a session: initialize, tools/list, tools/call
SessionIds == 1..(2 + MaxToolCalls)

\* the lines the child may print during a session, one per data event
SessionLines == {[json |-> FALSE, id |-> 0, error |-> FALSE]}
                    \cup [json : {TRUE}, id : 0..(2 + MaxToolCalls), error : BOOLEAN]

\* the notification has no id: it is written to the wire as 0
Notification == 0

SessIdle ==
    /\ sessionPc = "off"
    /\ connectPc = "idle"
    /\ connectOutcome = "pending"
    /\ methods = <<>>
    /\ tools = "none"
    /\ signalAborted = FALSE
    /\ disconnects = <<>>
    /\ kills = 0

SessInit ==
    /\ sessionPc = "idle"
    /\ connectPc = "idle"
    /\ connectOutcome = "pending"
    /\ methods = <<>>
    /\ tools = "none"
    /\ signalAborted = FALSE
    /\ disconnects = <<>>
    /\ kills = 0
    /\ requestId = 0
    /\ pendingRequests = {}
    /\ process = "null"
    /\ timers = {}
    /\ wire = <<>>
    /\ settled = [id \in SessionIds |-> <<>>]
    /\ fired = {}
    /\ answeredBy = [id \in SessionIds |-> <<>>]

\* this.process?.stdin?.write(data): the wire after writing the tokens
Written(tokens) == IF process # "null" THEN wire \o tokens ELSE wire

\* reject(...) of the promise of connect(): a settled promise stays as it is
Rejected(outcome) == IF outcome = "pending" THEN "rejected" ELSE outcome

\* resolve() of the promise of connect()
Resolved(outcome) == IF outcome = "pending" THEN "resolved" ELSE outcome

\* variant: the request is not awaited
AwaitedAtOnce(id) == TRUE

\* await this.sendRequest(...): the continuation runs once request id is settled
Awaited(id) == settled[id] # <<>>

\* the awaited request was rejected: by an error response or by its timeout
Failed(id) == settled[id] # <<>> /\ settled[id][1] # "resolved"

\* variant: disconnect does not test this.process
HoldsProcessAlways == TRUE

\* if (this.process) in disconnect()
HoldsProcess == process # "null"

\* disconnect() called by the abort handler or by the finally block
DisconnectBy(who) ==
    /\ disconnects' = Append(disconnects, [by |-> who, held |-> process # "null"])
    /\ kills' = IF HoldsProcess THEN kills + 1 ELSE kills
    /\ process' = "null"

\* the session starts: the abort listener is added and connect() spawns the
\* child and arms its 500 ms timer
StartSession ==
    /\ sessionPc = "idle"
    /\ sessionPc' = "connecting"
    /\ connectPc' = "starting"
    /\ process' = "alive"
    /\ UNCHANGED <<connectOutcome, methods, tools, signalAborted, disconnects, kills>>
    /\ UNCHANGED <<requestId, pendingRequests, timers, wire, settled, fired, answeredBy>>
    /\ SessFrame

\* the 500 ms timer fires: initialize() sends the initialize request
ConnectTimer ==
    /\ connectPc = "starting"
    /\ LET id == requestId + 1
       IN /\ requestId' = id
          /\ pendingRequests' = pendingRequests \cup {id}
          /\ wire' = Written(<<id>>)
          /\ timers' = ArmTimer(id)
    /\ methods' = Append(methods, "initialize")
    /\ connectPc' = "initializing"
    /\ UNCHANGED <<sessionPc, connectOutcome, tools, signalAborted, disconnects, kills>>
    /\ UNCHANGED <<process, settled, fired, answeredBy>>
    /\ SessFrame

\* the initialize request is settled: on success initialize() writes the
\* notification and discoverTools() sends tools/list; on failure the catch
\* block rejects
AfterInitialize ==
    /\ connectPc = "initializing"
    /\ Awaited(1)
    /\ IF Failed(1)
       THEN /\ connectPc' = "failed"
            /\ connectOutcome' = Rejected(connectOutcome)
            /\ UNCHANGED <<requestId, pendingRequests, wire, timers, methods>>
       ELSE /\ LET id == requestId + 1
               IN /\ requestId' = id
                  /\ pendingRequests' = pendingRequests \cup {id}
                  /\ wire' = Written(<<Notification, id>>)
                  /\ timers' = ArmTimer(id)
            /\ methods' = Append(methods, "tools/list")
            /\ connectPc' = "discovering"
            /\ UNCHANGED connectOutcome
    /\ UNCHANGED <<sessionPc, tools, signalAborted, disconnects, kills>>
    /\ UNCHANGED <<process, settled, fired, answeredBy>>
    /\ SessFrame

\* the tools/list request is settled: on success the tools are stored and
\* connect() resolves; on failure the catch block rejects
AfterDiscover ==
    /\ connectPc = "discovering"
    /\ Awaited(2)
    /\ IF Failed(2)
       THEN /\ connectPc' = "failed"
            /\ connectOutcome' = Rejected(connectOutcome)
            /\ UNCHANGED tools
       ELSE /\ tools' = "stored"
            /\ connectPc' = "connected"
            /\ connectOutcome' = Resolved(connectOutcome)
    /\ UNCHANGED <<sessionPc, methods, signalAborted, disconnects, kills>>
    /\ UNCHANGED mcpVars
    /\ SessFrame

\* the child emits an error event: the handler rejects connect()
ProcessError ==
    /\ connectPc \in {"starting", "initializing", "discovering"}
    /\ connectOutcome = "pending"
    /\ connectOutcome' = Rejected(connectOutcome)
    /\ UNCHANGED <<sessionPc, connectPc, methods, tools, signalAborted, disconnects, kills>>
    /\ UNCHANGED mcpVars
    /\ SessFrame

\* await mcpClient.connect() returns: the session builds the loop and calls run
BeginRun ==
    /\ sessionPc = "connecting"
    /\ connectOutcome = "resolved"
    /\ sessionPc' = "running"
    /\ UNCHANGED <<connectPc, connectOutcome, methods, tools, signalAborted, disconnects,
                   kills>>
    /\ UNCHANGED mcpVars
    /\ SessFrame

\* await mcpClient.connect() throws: the finally block runs
ConnectFails ==
    /\ sessionPc = "connecting"
    /\ connectOutcome = "rejected"
    /\ sessionPc' = "connectFailed"
    /\ DisconnectBy("finally")
    /\ UNCHANGED <<connectPc, connectOutcome, methods, tools, signalAborted>>
    /\ UNCHANGED <<requestId, pendingRequests, timers, wire, settled, fired, answeredBy>>
    /\ SessFrame

\* run dispatches an ado_ tool call: executeTool sends tools/call
CallTool ==
    /\ sessionPc = "running"
    /\ requestId < 2 + MaxToolCalls
    /\ LET id == requestId + 1
       IN /\ requestId' = id
          /\ pendingRequests' = pendingRequests \cup {id}
          /\ wire' = Written(<<id>>)
          /\ timers' = ArmTimer(id)
    /\ methods' = Append(methods, "tools/call")
    /\ UNCHANGED <<sessionPc, connectPc, connectOutcome, tools, signalAborted, disconnects,
                   kills>>
    /\ UNCHANGED <<process, settled, fired, answeredBy>>
    /\ SessFrame

\* run returns or throws: the finally block removes the listener and disconnects
RunEnds(how) ==
    /\ sessionPc = "running"
    /\ sessionPc' = how
    /\ DisconnectBy("finally")
    /\ UNCHANGED <<connectPc, connectOutcome, methods, tools, signalAborted>>
    /\ UNCHANGED <<requestId, pendingRequests, timers, wire, settled, fired, answeredBy>>
    /\ SessFrame

\* the abort signal fires while the listener is registered: the handler
\* disconnects
SessionAbort ==
    /\ sessionPc \in {"connecting", "running"}
    /\ ~signalAborted
    /\ signalAborted' = TRUE
    /\ DisconnectBy("abort")
    /\ UNCHANGED <<sessionPc, connectPc, connectOutcome, methods, tools>>
    /\ UNCHANGED <<requestId, pendingRequests, timers, wire, settled, fired, answeredBy>>
    /\ SessFrame

SessNext ==
    \/ StartSession
    \/ ConnectTimer
    \/ AfterInitialize
    \/ AfterDiscover
    \/ ProcessError
    \/ BeginRun
    \/ ConnectFails
    \/ CallTool
    \/ \E how \in {"returned", "threw"} : RunEnds(how)
    \/ SessionAbort
    \/ \E code \in ExitCodes : Exit(code)
    \/ \E line \in SessionLines : HandleData(<<line>>)
    \/ \E id \in SessionIds : TimerFire(id)

(***************************************************************************)
(* AzureOpenAIClient.chatCompletionStream: assembling the parsed deltas    *)
(***************************************************************************)
MaxDeltas == 3

ToolIndexes == 0..1

\* a tool_calls element of a delta; an absent member is the empty string
Fragment(index, id, name, arguments) ==
    [index |-> index, id |-> id, name |-> name, arguments |-> arguments]

ArgPieces == {<<>>, <<"{">>, <<"}">>}

OpeningFragments ==
    {Fragment(i, <<"x">>, <<"f">>, a) : i \in ToolIndexes, a \in ArgPieces}
ArgumentFragments ==
    {Fragment(i, <<>>, <<>>, a) : i \in ToolIndexes, a \in ArgPieces}

\* choices[0].delta with choices[0].finish_reason ("" when absent)
Delta(content, toolCalls, reason) ==
    [content |-> content, tool_calls |-> toolCalls, finish_reason |-> reason]

Deltas ==
    {Delta(c, <<f>>, "") : c \in {<<>>, <<"a">>}, f \in OpeningFragments \cup ArgumentFragments}
    \cup {Delta(<<>>, <<f, g>>, "") : f \in ArgumentFragments, g \in ArgumentFragments}
    \cup {Delta(c, <<>>, r) : c \in {<<>>, <<"a">>}, r \in {"", "tool_calls", "stop"}}

StreamIdle ==
    /\ stream = 0
    /\ fullContent = <<>>
    /\ toolCallsMap = <<>>
    /\ finishReason = "stop"
    /\ streamPc = "idle"
    /\ streamOut = NoResponse
    /\ arrived = [i \in ToolIndexes |-> <<>>]
    /\ notified = <<>>

\* after the response headers: the accumulators are empty
StreamInit ==
    /\ stream = 0
    /\ fullContent = <<>>
    /\ toolCallsMap = <<>>
    /\ finishReason = "stop"
    /\ streamPc = "reading"
    /\ streamOut = NoResponse
    /\ arrived = [i \in ToolIndexes |-> <<>>]
    /\ notified = <<>>

\* the position of index in the map's insertion order, 0 when absent
PositionOf(map, index) ==
    IF \E k \in 1..Len(map) : map[k].index = index
    THEN CHOOSE k \in 1..Len(map) : map[k].index = index
    ELSE 0

\* variant: a later fragment replaces the arguments
ReplaceArguments(existing, piece) == piece

\* existing.arguments += tc.function.arguments
AppendArguments(existing, piece) == existing \o piece

\* the body of the for loop over delta.tool_calls for one element
ApplyFragment(map, tc) ==
    LET k == PositionOf(map, tc.index)
    IN IF k = 0
       THEN Append(map, Fragment(tc.index, tc.id, tc.name, tc.arguments))
       ELSE [map EXCEPT ![k] =
                [index |-> @.index,
                 id |-> IF tc.id # <<>> THEN tc.id ELSE @.id,
                 name |-> IF tc.name # <<>> THEN @.name \o tc.name ELSE @.name,
                 arguments |-> IF tc.arguments # <<>>
                               THEN AppendArguments(@.arguments, tc.arguments)
                               ELSE @.arguments]]

RECURSIVE ApplyFragments(_, _)
ApplyFragments(map, tcs) ==
    IF tcs = <<>> THEN map ELSE ApplyFragments(ApplyFragment(map, Head(tcs)), Tail(tcs))

RECURSIVE NoteArrived(_, _)
\* the argument fragments of each index, concatenated as they arrive
NoteArrived(seen, tcs) ==
    IF tcs = <<>> THEN seen
    ELSE NoteArrived([seen EXCEPT ![Head(tcs).index] = @ \o Head(tcs).arguments], Tail(tcs))

\* one parsed "data: " line of the stream
StreamDelta(delta) ==
    /\ streamPc = "reading"
    /\ stream < MaxDeltas
    /\ stream' = stream + 1
    /\ fullContent' = fullContent \o delta.content
    /\ toolCallsMap' = ApplyFragments(toolCallsMap, delta.tool_calls)
    /\ finishReason' = IF delta.finish_reason # "" THEN delta.finish_reason ELSE finishReason
    /\ arrived' = NoteArrived(arrived, delta.tool_calls)
    /\ UNCHANGED <<streamPc, streamOut, notified>>
    /\ StreamFrame

\* Array.from(toolCallsMap.values()).sort(() => 0).map(...)
FinalToolCalls(map) ==
    [k \in 1..Len(map) |-> ToolCallRec(map[k].id, map[k].name, map[k].arguments)]

\* variant: the callback is handed every tool call a second time
ToolCallsNotifiedTwice(toolCalls) == toolCalls \o toolCalls

\* for (const tc of toolCalls) { onToolCall?.(tc); }: the calls handed to the
\* callback, in the order of the calls
ToolCallsNotified(toolCalls) == [k \in 1..Len(toolCalls) |-> toolCalls[k]]

\* the reader reports done: the result is built, the callback is called for
\* every tool call of it, and the result is returned
StreamEnd ==
    /\ streamPc = "reading"
    /\ notified' = notified \o ToolCallsNotified(FinalToolCalls(toolCallsMap))
    /\ streamOut' = Response(fullContent # <<>>, fullContent, FinalToolCalls(toolCallsMap),
                             finishReason)
    /\ streamPc' = "done"
    /\ UNCHANGED <<stream, fullContent, toolCallsMap, finishReason, arrived>>
    /\ StreamFrame

StreamNext ==
    \/ \E delta \in Deltas : StreamDelta(delta)
    \/ StreamEnd

(***************************************************************************)
(* Specifications, one per component; the other components stay idle       *)
(***************************************************************************)
LoopIdle ==
    /\ options = [maxTurns |-> 0, maxContextChars |-> 1, maxToolResultChars |-> 1,
                  maxAssistantMessageChars |-> 1, maxToolCallArgsChars |-> 1]
    /\ messages = <<>>
    /\ turnCount = 0
    /\ pc = "off"
    /\ retriedForContext = FALSE
    /\ response = NoResponse
    /\ results = <<>>
    /\ result = NoResult
    /\ aborted = FALSE
    /\ userPrompt = <<>>
    /\ modelCalls = 0
    /\ sent = <<>>
    /\ history = <<>>
    /\ modelFailures = 0
    /\ abortSeen = FALSE
    /\ events = <<>>
    /\ failures = <<>>
    /\ dispatched = <<>>

(***************************************************************************)
(* The GUI server: POST /api/investigate, GET /api/investigate/stream and  *)
(* POST /api/investigate/stop.  Every request runs its handler on the one  *)
(* event loop: a handler runs without interruption up to its next await.   *)
(***************************************************************************)
GuiRequests == 3

InvestigateIds == 1..GuiRequests

NoController == 0

Handler(kind, at, reply) == [kind |-> kind, pc |-> at, reply |-> reply]

\* the investigations that have started and not settled
Running == {h \in InvestigateIds : handlers[h].pc = "running"}

\* let isInvestigating = false; let activeAbortController = null;
GuiInit ==
    /\ isInvestigating = FALSE
    /\ activeAbortController = NoController
    /\ handlers = [h \in InvestigateIds |-> Handler("none", "new", "none")]
    /\ abortedControllers = {}
    /\ stopReply = [stopped |-> FALSE, running |-> {}]

\* the requests arrive one after the other
NextRequest(h) ==
    /\ handlers[h].pc = "new"
    /\ \A g \in InvestigateIds : g < h => handlers[g].pc # "new"

\* isInvestigating = true; activeAbortController = new AbortController(); and
\* runInvestigationWithEvents up to its first await
StartInvestigation(h, kind) ==
    /\ isInvestigating' = TRUE
    /\ activeAbortController' = h
    /\ handlers' = [handlers EXCEPT ![h] = Handler(kind, "running", "none")]

\* handleInvestigate up to the await of readJsonBody
handleInvestigate(h) ==
    /\ NextRequest(h)
    /\ IF isInvestigating
       THEN handlers' = [handlers EXCEPT ![h] = Handler("post", "done", "already_running")]
       ELSE handlers' = [handlers EXCEPT ![h] = Handler("post", "readBody", "none")]
    /\ UNCHANGED <<isInvestigating, activeAbortController, abortedControllers, stopReply>>
    /\ GuiFrame

\* the outcomes of reading the body and building the prompt
Bodies == {"invalid_json", "prompt_error", "prompt"}

\* readJsonBody settles: handleInvestigate goes on to its reply or to the
\* await of runInvestigationWithEvents
BodyRead(h, body) ==
    /\ handlers[h].pc = "readBody"
    /\ IF body = "prompt"
       THEN StartInvestigation(h, "post")
       ELSE /\ handlers' = [handlers EXCEPT ![h] = Handler("post", "done", "bad_request")]
            /\ UNCHANGED <<isInvestigating, activeAbortController>>
    /\ UNCHANGED <<abortedControllers, stopReply>>
    /\ GuiFrame

\* handleInvestigateStream up to its return or to the await of
\* runInvestigationWithEvents
handleInvestigateStream(h, query) ==
    /\ NextRequest(h)
    /\ IF isInvestigating
       THEN /\ handlers' = [handlers EXCEPT ![h] =
                                Handler("stream", "done", "already_running")]
            /\ UNCHANGED <<isInvestigating, activeAbortController>>
       ELSE IF query = "prompt_error"
       THEN /\ handlers' = [handlers EXCEPT ![h] = Handler("stream", "done", "bad_request")]
            /\ UNCHANGED <<isInvestigating, activeAbortController>>
       ELSE StartInvestigation(h, "stream")
    /\ UNCHANGED <<abortedControllers, stopReply>>
    /\ GuiFrame

\* runInvestigationWithEvents settles: the reply is sent and the finally block
\* of the handler runs
InvestigationSettles(h, reply) ==
    /\ handlers[h].pc = "running"
    /\ handlers' = [handlers EXCEPT ![h] = Handler(@.kind, "done", reply)]
    /\ isInvestigating' = FALSE
    /\ activeAbortController' = NoController
    /\ UNCHANGED <<abortedControllers, stopReply>>
    /\ GuiFrame

\* handleStopInvestigation
handleStopInvestigation ==
    /\ IF ~isInvestigating \/ activeAbortController = NoController
       THEN /\ stopReply' = [stopped |-> FALSE, running |-> Running]
            /\ UNCHANGED abortedControllers
       ELSE /\ abortedControllers' = abortedControllers \cup {activeAbortController}
            /\ stopReply' = [stopped |-> TRUE, running |-> Running]
    /\ UNCHANGED <<isInvestigating, activeAbortController, handlers>>
    /\ GuiFrame

GuiNext ==
    \/ \E h \in InvestigateIds : handleInvestigate(h)
    \/ \E h \in InvestigateIds : \E body \in Bodies : BodyRead(h, body)
    \/ \E h \in InvestigateIds :
            \E query \in {"prompt_error", "prompt"} : handleInvestigateStream(h, query)
    \/ \E h \in InvestigateIds :
            \E reply \in {"result", "error"} : InvestigationSettles(h, reply)
    \/ handleStopInvestigation

\* the agent loop
Init == LoopInit /\ BcIdle /\ TeIdle /\ McpIdle /\ StreamIdle /\ SessIdle /\ RdIdle /\ GuiInit
Next == LoopNext
Spec == Init /\ [][Next]_vars

\* boundContent
BoundInit == LoopIdle /\ BcInit /\ TeIdle /\ McpIdle /\ StreamIdle /\ SessIdle /\ RdIdle /\ GuiInit
BoundNext == BcNext
BoundSpec == BoundInit /\ [][BoundNext]_vars

\* the tool router
RouterInit == LoopIdle /\ BcIdle /\ TeInit /\ McpIdle /\ StreamIdle /\ SessIdle /\ RdIdle /\ GuiInit
RouterNext == TeNext
RouterSpec == RouterInit /\ [][RouterNext]_vars

\* the subprocess protocol client
ClientInit == LoopIdle /\ BcIdle /\ TeIdle /\ McpInit /\ StreamIdle /\ SessIdle /\ RdIdle /\ GuiInit
ClientNext == McpNext
ClientSpec == ClientInit /\ [][ClientNext]_vars

\* the streaming assembler
AssemblerInit == LoopIdle /\ BcIdle /\ TeIdle /\ McpIdle /\ StreamInit /\ SessIdle /\ RdIdle /\ GuiInit
AssemblerNext == StreamNext
AssemblerSpec == AssemblerInit /\ [][AssemblerNext]_vars

\* the subprocess protocol client; Node fires every armed timer
ClientFairSpec == ClientSpec /\ \A id \in RequestIds : WF_vars(TimerFire(id))

\* the subprocess protocol client, one line per data event, with the requests
\* in flight at the exit of the child recorded; Node fires every armed timer
ExitInit == ClientInit
ExitNext ==
    \/ Spawn
    \/ \E code \in ExitCodes : ObservedExit(code)
    \/ Disconnect
    \/ SendRequest
    \/ \E line \in Lines : HandleData(<<line>>)
    \/ \E id \in RequestIds : TimerFire(id)
ExitFairSpec == ExitInit /\ [][ExitNext]_vars /\ \A id \in RequestIds : WF_vars(TimerFire(id))

\* the request handlers of the GUI server
ServerInit == LoopIdle /\ BcIdle /\ TeIdle /\ McpIdle /\ StreamIdle /\ SessIdle /\ RdIdle /\ GuiInit
ServerNext == GuiNext
ServerSpec == ServerInit /\ [][ServerNext]_vars

\* a session around the subprocess protocol client
SessionInit == LoopIdle /\ BcIdle /\ TeIdle /\ SessInit /\ StreamIdle /\ RdIdle /\ GuiInit
SessionNext == SessNext
SessionSpec == SessionInit /\ [][SessionNext]_vars

\* the stdout data handler and handleData, with two requests in flight
ReaderInit == LoopIdle /\ BcIdle /\ TeIdle /\ RdInit /\ StreamIdle /\ SessIdle /\ GuiInit
ReaderNext == RdNext
ReaderSpec == ReaderInit /\ [][ReaderNext]_vars

\* the agent loop when the code of run is scheduled and every awaited model
\* call and tool dispatch settles. Each condition is stated on the variables
\* that every such step of run changes: the steps of Next that satisfy it are
\* the LoopTop, the ModelRespond or ModelFail, and the ToolDone steps.
TopRuns == pc = "loopTop" /\ pc' \in {"awaitModel", "returned"}
ModelSettles ==
    /\ pc = "awaitModel"
    /\ \/ pc' \in {"awaitTools", "returned"} /\ modelFailures' = modelFailures
       \/ pc' \in {"awaitModel", "returned", "thrown"} /\ modelFailures' = modelFailures + 1
ToolSettles ==
    /\ pc = "awaitTools"
    /\ \E content \in ToolContents :
            results' = Append(results,
                              [tool_call_id |-> response.toolCalls[Len(results) + 1].id,
                               content |-> content])
FairTurns == 2
LoopFairInit == Init /\ options.maxTurns <= FairTurns
LoopFairSpec ==
    /\ LoopFairInit
    /\ [][Next]_vars
    /\ WF_pc(TopRuns)
    /\ WF_<<pc, modelFailures>>(ModelSettles)
    /\ WF_results(ToolSettles)

(***************************************************************************)
(* A run whose tool calls go through the router to the subprocess client   *)
(***************************************************************************)
DispatchTurns == 2
MaxDispatch == 3

\* initialize and tools/list, then the tools/call requests
DispatchIds == 1..(2 + MaxDispatch)

\* the responses of the n-th model call: text, or two tool calls, the first
\* of them for an MCP tool
DispatchResponses(n) ==
    {Response(TRUE, ShortText, <<>>, "stop"),
     Response(FALSE, <<>>, <<ToolCallRec(<<n, 1>>, NameAdo, ArgsShort),
                             ToolCallRec(<<n, 2>>, NameAdo, ArgsLong)>>, "tool_calls"),
     Response(FALSE, <<>>, <<ToolCallRec(<<n, 1>>, NameAdo, ArgsShort),
                             ToolCallRec(<<n, 2>>, NameLocal, ArgsShort)>>, "tool_calls")}

\* the text of the result of every tools/call that is answered
DispatchText == ShortText

\* the lines the child prints for tools/call requests, one per data event
DispatchLines == [json : {TRUE}, id : 3..(2 + MaxDispatch), error : BOOLEAN]

\* `MCP error: ${JSON.stringify(message.error)}`
McpErrorMessage == <<"M", "C", "P", " ", "e", "r", "r", "o", "r", ":", " ", "1">>

\* the message of the Error executeTool rejects with
RejectionMessage(id) ==
    IF settled[id][1] = "timeout" THEN TimeoutMessage ELSE McpErrorMessage

\* the client is connected: initialize and tools/list were answered and their
\* timers have fired since
DispatchInit ==
    /\ LoopInit
    /\ options.maxTurns \in 1..DispatchTurns
    /\ options.maxContextChars = 100000
    /\ BcIdle /\ TeIdle /\ StreamIdle /\ SessIdle /\ RdIdle /\ GuiInit
    /\ requestId = 2
    /\ pendingRequests = {}
    /\ process = "alive"
    /\ timers = {}
    /\ wire = <<1, Notification, 2>>
    /\ settled = [id \in DispatchIds |-> IF id <= 2 THEN <<"resolved">> ELSE <<>>]
    /\ fired = {1, 2}
    /\ answeredBy = [id \in DispatchIds |->
                        IF id <= 2 THEN <<[json |-> TRUE, id |-> id, error |-> FALSE]>>
                        ELSE <<>>]

\* variant: the calls are dispatched as they are stored in the transcript
DispatchedCallsBounded(r) == boundToolCalls(r.toolCalls)

\* executeToolCalls(response.toolCalls): the calls handed to the tool executor
DispatchedCalls(r) == r.toolCalls

\* executeToolCalls takes the next call: executeToolCall parses the arguments
\* and routes the call, up to its return or its await; for an ado_ name
\* executeTool sends the tools/call request
DispatchCall ==
    /\ pc = "awaitTools"
    /\ Len(results) < Len(response.toolCalls)
    /\ LET call == DispatchedCalls(response)[Len(results) + 1]
       IN /\ tePc = "idle" \/ (tePc = "done" /\ teCall # call)
          /\ teCall' = call
          /\ IF ~JsonParses(call.arguments)
             THEN /\ teOutcome' = OnParseError(call)
                  /\ tePc' = "done"
                  /\ teInvoked' = NotInvoked
                  /\ UNCHANGED <<requestId, pendingRequests, wire, timers>>
             ELSE IF StartsWith(call.name, AdoPrefix)
             THEN /\ requestId < 2 + MaxDispatch
                  /\ teInvoked' = [target |-> "mcp", name |-> McpToolName(call.name)]
                  /\ tePc' = "await"
                  /\ teOutcome' = TePending
                  /\ requestId' = FreshId
                  /\ pendingRequests' = pendingRequests \cup {FreshId}
                  /\ wire' = Written(<<FreshId>>)
                  /\ timers' = ArmTimer(FreshId)
             ELSE IF StartsWith(call.name, LocalPrefix)
             THEN /\ teInvoked' = [target |-> "local", name |-> call.name]
                  /\ tePc' = "await"
                  /\ teOutcome' = TePending
                  /\ UNCHANGED <<requestId, pendingRequests, wire, timers>>
             ELSE /\ teOutcome' = OnUnknownPrefix(call)
                  /\ tePc' = "done"
                  /\ teInvoked' = NotInvoked
                  /\ UNCHANGED <<requestId, pendingRequests, wire, timers>>
    /\ UNCHANGED <<process, settled, fired, answeredBy>>
    /\ UNCHANGED <<loopVars, bcVars, streamVars, sessVars, rdVars, guiVars>>

\* the tools/call request is settled: executeTool returns the text of the
\* result or throws, and executeToolCall returns
McpToolSettles ==
    /\ tePc = "await"
    /\ teInvoked.target = "mcp"
    /\ Awaited(requestId)
    /\ IF Failed(requestId)
       THEN teOutcome' = OnToolThrow(teCall, RejectionMessage(requestId))
       ELSE teOutcome' = OnToolResult(teCall, DispatchText)
    /\ tePc' = "done"
    /\ UNCHANGED <<teCall, teInvoked>>
    /\ TeFrame

\* the local tool returns
LocalToolReturns(text) == teInvoked.target = "local" /\ TeToolReturns(text)

\* the local tool throws
LocalToolThrows(message) == teInvoked.target = "local" /\ TeToolThrows(message)

\* executeToolCalls receives the result of the call it awaits; had
\* executeToolCall rejected, run would rethrow the error from its outer catch
DispatchSettled ==
    /\ pc = "awaitTools"
    /\ tePc = "done"
    /\ Len(results) < Len(response.toolCalls)
    /\ teCall = response.toolCalls[Len(results) + 1]
    /\ IF teOutcome.state = "resolved"
       THEN ToolDone(teOutcome.content)
       ELSE /\ pc' = "thrown"
            /\ UNCHANGED <<options, messages, turnCount, retriedForContext, response,
                           results, result, aborted, userPrompt, modelCalls, sent, history,
                           modelFailures, abortSeen, events, failures, dispatched>>
            /\ LoopFrame

DispatchNext ==
    \/ Run(ShortText)
    \/ LoopTop
    \/ \E r \in DispatchResponses(modelCalls) : ModelRespond(r)
    \/ DispatchCall
    \/ McpToolSettles
    \/ LocalToolReturns(DispatchText)
    \/ \E message \in {UnknownLocalMessage \o NameLocal} : LocalToolThrows(message)
    \/ DispatchSettled
    \/ \E line \in DispatchLines : HandleData(<<line>>)
    \/ \E id \in DispatchIds : TimerFire(id)

DispatchSpec == DispatchInit /\ [][DispatchNext]_vars

(***************************************************************************)
(* Properties                                                              *)
(***************************************************************************)


\* C1 as stated: after enforceContextBudget returns the transcript's total size
\* is at most maxContextChars. (While run awaits the model, messages is what
\* the budget pass that preceded the call left.)
C1_WithinBudget ==
    pc = "awaitModel" => totalContextChars(messages) <= options.maxContextChars

\* C1 amended: after enforceContextBudget returns, the total size is at most
\* maxContextChars or no more than two entries remain.
C1_WithinBudgetOrTwoEntries ==
    pc = "awaitModel" =>
        \/ totalContextChars(messages) <= options.maxContextChars
        \/ Len(messages) <= 2

\* a budget pass dropped an entry and brought three entries within the limit
C1_PrunedToFit ==
    /\ pc = "awaitModel"
    /\ Len(messages) = 3
    /\ messages[2].role = "assistant"
    /\ totalContextChars(messages) <= options.maxContextChars
    /\ options.maxContextChars = 110

\* C2: at every point of a run entry 0 is the system entry and entry 1 the
\* initiating user entry.
C2_ProtectedEntries ==
    pc \in {"loopTop", "awaitModel", "awaitTools", "returned", "thrown"} =>
        /\ Len(messages) >= 2
        /\ messages[1] = Message("system", TRUE, SystemText, <<>>, NoId)
        /\ messages[2].role = "user"
        /\ messages[2].content = userPrompt

\* C3: executeToolCall never rejects; it resolves to a result carrying the
\* call's id and a string content.
C3_NeverThrows ==
    /\ teOutcome.state # "rejected"
    /\ tePc = "done" =>
        /\ teOutcome.state = "resolved"
        /\ teOutcome.tool_call_id = teCall.id
        /\ teOutcome.content \in Seq(STRING)

\* a timeout of the subprocess request was turned into an error text
C3_TimeoutBecomesText ==
    /\ tePc = "done"
    /\ teInvoked.target = "mcp"
    /\ teOutcome = TeResolved(teCall, ErrorExecutingText \o teCall.name \o <<":", " ">>
                                          \o TimeoutMessage)

\* C4: every request is settled at most once, whatever the order of response
\* and timer.
C4_SettledAtMostOnce == \A id \in RequestIds : Len(settled[id]) <= 1

\* a request was resolved by its response and its timer fired afterwards, and
\* another was rejected by its timeout
C4_BothOrders ==
    /\ \E id \in fired : settled[id] = <<"resolved">>
    /\ \E id \in fired : settled[id] = <<"timeout">>

\* C5: every request sent has its timer armed until it fires, is then settled
\* and out of pendingRequests, and does get there, in every state of the
\* child process.
C5_SettledByDeadline ==
    /\ [](\A id \in 1..requestId :
            /\ id \in timers \cup fired
            /\ id \in fired => id \notin pendingRequests /\ Len(settled[id]) >= 1)
    /\ \A id \in RequestIds :
            (id \in pendingRequests) ~> (id \notin pendingRequests /\ Len(settled[id]) >= 1)

\* a request sent while there was no process was rejected by its timeout
C5_TimedOutWithoutProcess ==
    \E id \in fired :
        /\ settled[id] = <<"timeout">>
        /\ \A k \in 1..Len(wire) : wire[k] # id
        /\ process = "null"

\* C6: each tool call's arguments are the concatenation of its index's
\* fragments in arrival order, while assembling and in the result.
C6_ArgumentsInArrivalOrder ==
    /\ \A k \in 1..Len(toolCallsMap) :
            toolCallsMap[k].arguments = arrived[toolCallsMap[k].index]
    /\ streamPc = "done" =>
        /\ Len(streamOut.toolCalls) = Len(toolCallsMap)
        /\ \A k \in 1..Len(toolCallsMap) :
                streamOut.toolCalls[k].arguments = arrived[toolCallsMap[k].index]

\* an argument text arrived in two fragments, interleaved with a fragment of
\* the other index and with content
C6_SplitAndInterleaved ==
    /\ streamPc = "done"
    /\ Len(streamOut.toolCalls) = 2
    /\ \E k \in 1..2 : streamOut.toolCalls[k].arguments = <<"{", "}">>
    /\ \E k \in 1..2 : streamOut.toolCalls[k].arguments = <<"{">>
    /\ streamOut.content = <<"a">>

\* C7: clamping is idempotent: a second pass with the same ceiling leaves the
\* text unchanged.
C7_ClampIdempotent == bcPc = "twice" => bcTwice = bcOnce

\* every response so far carried a tool call and a finish reason other than stop
AllToolResponses ==
    \A k \in 1..Len(history) :
        Len(history[k].toolCalls) > 0 /\ history[k].finishReason # "stop"

\* C8: if every response carries tool calls and does not finish with stop, run
\* returns the maximum-turns message after exactly maxTurns turns and as many
\* model calls (no model call failed, no cancellation was observed).
C8_MaxTurnsAfterNTurns ==
    (modelFailures = 0 /\ ~abortSeen /\ AllToolResponses) =>
        /\ pc # "thrown"
        /\ turnCount <= options.maxTurns
        /\ modelCalls = turnCount
        /\ pc = "returned" =>
            /\ result = MaxTurnsReached
            /\ turnCount = options.maxTurns
            /\ Len(history) = options.maxTurns

\* a run of MaxTurns turns ended with the maximum-turns message
C8_TurnLimitReached ==
    /\ pc = "returned"
    /\ result = MaxTurnsReached
    /\ options.maxTurns = MaxTurns
    /\ Len(history) = MaxTurns
    /\ modelCalls = MaxTurns

\* scenario A: a response with tool calls, then a text response without
ScenarioA ==
    /\ pc = "returned"
    /\ modelFailures = 0
    /\ Len(history) = 2
    /\ Len(history[1].toolCalls) > 0
    /\ history[1].finishReason # "stop"
    /\ history[2].isString
    /\ Len(history[2].toolCalls) = 0

\* the transcript of the last model call ends with the assistant entry of the
\* first response followed by one tool entry per call, in order
EntriesSent ==
    LET calls == history[1].toolCalls
        n == Len(calls)
        first == Len(sent) - n
    IN /\ first >= 1
       /\ sent[first].role = "assistant"
       /\ Len(sent[first].tool_calls) = n
       /\ \A i \in 1..n :
            /\ sent[first].tool_calls[i].id = calls[i].id
            /\ sent[first + i].role = "tool"
            /\ sent[first + i].tool_call_id = calls[i].id

\* C9 as stated: in scenario A the second model call is made with the assistant
\* entry and the tool entries in the transcript, and run returns the second
\* response's text after exactly 2 turns.
C9_SecondCallSeesEntries ==
    ScenarioA =>
        /\ EntriesSent
        /\ result = TextResult(history[2].content)
        /\ turnCount = 2
        /\ modelCalls = 2

\* C9 amended: as stated, with the entries in the transcript of the second call
\* when the budget pass of turn 2 removed no entry.
C9_SecondCallSeesUnprunedEntries ==
    ScenarioA =>
        /\ Len(sent) = 3 + Len(history[1].toolCalls) => EntriesSent
        /\ result = TextResult(history[2].content)
        /\ turnCount = 2
        /\ modelCalls = 2

\* scenario A with two tool calls and nothing pruned
C9_TwoCallsThenText ==
    /\ ScenarioA
    /\ Len(history[1].toolCalls) = 2
    /\ Len(sent) = 5
    /\ result = TextResult(ShortText)

\* C10: when the signal is aborted once a turn's tool dispatch has completed
\* and another turn is due, run makes no further model call and returns the
\* cancellation message.
C10_AbortBeforeNextTurn ==
    [][(/\ pc = "loopTop"
        /\ aborted
        /\ turnCount >= 1
        /\ turnCount < options.maxTurns
        /\ pc' # "loopTop")
       => (pc' = "returned" /\ result' = Cancelled /\ modelCalls' = modelCalls)]_vars

\* a run was cancelled at the top of a turn after a tool dispatch
C10_CancelledAfterDispatch ==
    /\ pc = "returned"
    /\ abortSeen
    /\ turnCount >= 1
    /\ result = Cancelled
    /\ messages[Len(messages)].role = "tool"

\* scenario D: one model call failed, with a context-length error, and the call
\* repeated after compaction was answered
ScenarioD ==
    /\ Len(failures) = 1
    /\ failures[1].context
    /\ Len(history) >= failures[1].calls

\* C11 as stated: in scenario D run completes without throwing and the final
\* transcript is at most maxContextChars in size.
C11_FinalWithinBudget ==
    (ScenarioD /\ pc \in {"returned", "thrown"}) =>
        /\ pc = "returned"
        /\ totalContextChars(messages) <= options.maxContextChars

\* C11 amended: a context-length error that is the only failure of a run is
\* answered with compaction and a repeated call, run does not throw, and the
\* transcript of the repeated call is at most maxContextChars in size or is
\* down to two entries.
C11_RetryThenCompletes ==
    /\ (Len(failures) = 1 /\ failures[1].context) =>
            /\ failures[1].retried
            /\ modelCalls = failures[1].calls + (turnCount - failures[1].turn) + 1
            /\ pc # "thrown"
    /\ (pc = "awaitModel" /\ retriedForContext) =>
            /\ sent = messages
            /\ \/ totalContextChars(sent) <= options.maxContextChars
               \/ Len(sent) <= 2

\* scenario D in a turn after the first: the compaction had tool entries to
\* work on, and run returned the text of a later response
C11_CompactedAndReturned ==
    /\ ScenarioD
    /\ failures[1].turn >= 2
    /\ pc = "returned"
    /\ result.kind = "text"
    /\ totalContextChars(messages) <= options.maxContextChars

\* the failures of the turn of failure k that came before it
EarlierInTurn(k) == {j \in 1..(k - 1) : failures[j].turn = failures[k].turn}

\* the failed calls that were answered with a retry
Retries == {k \in 1..Len(failures) : failures[k].retried}

LastResponseText ==
    IF history[Len(history)].isString THEN history[Len(history)].content ELSE <<>>

\* C13: run ends by returning the text of the last response, the cancellation
\* message or the maximum-turns message, or by throwing, and nothing follows;
\* a failure that is neither a context-length nor an abort error is thrown
\* without a retry and without a further model call.
C13_FourWaysOut ==
    /\ pc = "returned" =>
            /\ result.kind \in {"text", "cancelled", "max_turns"}
            /\ result.kind = "text" =>
                    /\ Len(history) > 0
                    /\ response = history[Len(history)]
                    /\ result = TextResult(LastResponseText)
                    /\ events[Len(events)].type = "complete"
            /\ result.kind = "cancelled" => events[Len(events)].type = "canceled"
            /\ result.kind = "max_turns" =>
                    /\ turnCount = options.maxTurns
                    /\ events[Len(events)].type = "max_turns"
    /\ pc = "thrown" =>
            /\ result = NoResult
            /\ Len(failures) > 0
            /\ ~failures[Len(failures)].retried
            /\ ~failures[Len(failures)].abort
    /\ pc \notin {"returned", "thrown"} => result = NoResult
    /\ pc \in {"returned", "thrown"} => ~ENABLED LoopNext
    /\ \A k \in 1..Len(failures) :
            (~failures[k].context /\ ~failures[k].abort) =>
                /\ k = Len(failures)
                /\ ~failures[k].retried
                /\ pc = "thrown"
                /\ modelCalls = failures[k].calls

\* a failure of the second kind in turn 2, after a turn with tool calls, thrown
C13_OtherFailureThrown ==
    /\ pc = "thrown"
    /\ Len(failures) = 1
    /\ ~failures[1].context /\ ~failures[1].abort
    /\ failures[1].turn = 2
    /\ Len(history) = 1
    /\ modelCalls = 2

\* the dispatch log of the calls 1..n of the current response when each call
\* starts only after the one before it has ended
Alternating(n) ==
    \A p \in 1..Len(dispatched) :
        /\ (p + 1) \div 2 <= n
        /\ dispatched[p] = [kind |-> IF p % 2 = 1 THEN "start" ELSE "end",
                            id |-> response.toolCalls[(p + 1) \div 2].id]

\* C14: the calls of a response are started in the order of the response, each
\* after the one before it has completed, and once the last has completed the
\* transcript ends with one tool entry per call, in that order, each with the
\* id of its call, right after the assistant entry of the response.
C14_SequentialDispatch ==
    LET n == Len(response.toolCalls)
        first == Len(messages) - n
    IN /\ Alternating(n)
       /\ pc = "awaitTools" => Len(dispatched) = 2 * Len(results) + 1
       /\ (pc = "loopTop" /\ Len(history) > 0) =>
            /\ Len(dispatched) = 2 * n
            /\ Len(results) = n
            /\ first >= 1
            /\ messages[first].role = "assistant"
            /\ \A i \in 1..n :
                    /\ messages[first + i].role = "tool"
                    /\ messages[first + i].tool_call_id = response.toolCalls[i].id
                    /\ results[i].tool_call_id = response.toolCalls[i].id
                    /\ messages[first + i].content =
                            boundContent(results[i].content, options.maxToolResultChars,
                                         LabelToolResult)

\* both calls of a response with two tool calls have completed, with
\* different results
C14_TwoCallsDispatched ==
    /\ pc = "loopTop"
    /\ Len(response.toolCalls) = 2
    /\ Len(dispatched) = 4
    /\ results[1].content = LongText
    /\ results[2].content = ShortText
    /\ messages[Len(messages)].tool_call_id = response.toolCalls[2].id

\* entry q of the transcript msgs is an assistant entry with a tool call id
Requests(msgs, q, id) ==
    /\ msgs[q].role = "assistant"
    /\ \E c \in 1..Len(msgs[q].tool_calls) : msgs[q].tool_calls[c].id = id

\* C15: in the transcript of every model call, every tool entry answers a tool
\* call of an assistant entry before it, and every tool call of an assistant
\* entry is answered by exactly one tool entry after it.
C15_ToolEntriesPaired ==
    /\ \A p \in 1..Len(sent) :
            sent[p].role = "tool" =>
                \E q \in 1..(p - 1) : Requests(sent, q, sent[p].tool_call_id)
    /\ \A q \in 1..Len(sent) :
            sent[q].role = "assistant" =>
                \A c \in 1..Len(sent[q].tool_calls) :
                    Cardinality({p \in (q + 1)..Len(sent) :
                                    /\ sent[p].role = "tool"
                                    /\ sent[p].tool_call_id = sent[q].tool_calls[c].id}) = 1

\* C16: a model call that fails with an abort error, and is not the
\* context-length failure that the turn's one retry answers, ends run: no
\* throw, no further model call, no tool dispatch, no other turn; the canceled
\* event is emitted and the cancellation message returned.
C16_AbortErrorCancels ==
    \A k \in 1..Len(failures) :
        (failures[k].abort /\ ~failures[k].retried) =>
            /\ k = Len(failures)
            /\ pc = "returned"
            /\ result = Cancelled
            /\ events[Len(events)].type = "canceled"
            /\ modelCalls = failures[k].calls
            /\ turnCount = failures[k].turn
            /\ ~ENABLED LoopNext

\* the signal fired during the model call of turn 2, the call failed with an
\* abort error and run returned the cancellation message
C16_CancelledInFlight ==
    /\ aborted
    /\ ~abortSeen
    /\ pc = "returned"
    /\ result = Cancelled
    /\ Len(failures) = 1
    /\ failures[1].abort /\ ~failures[1].context
    /\ failures[1].turn = 2
    /\ events[Len(events)].type = "canceled"

\* C17: whatever the order of arrival, a request is settled by a response line
\* only while it is pending, by a line that carries its id, and with the
\* outcome of that line; a line whose id is not pending settles nothing and
\* removes nothing from the pending map.
C17_CorrelatedById ==
    [][/\ \A id \in RequestIds :
            answeredBy'[id] # answeredBy[id] =>
                /\ id \in pendingRequests
                /\ id \notin pendingRequests'
                /\ \E line \in Lines :
                        /\ line.json
                        /\ line.id = id
                        /\ answeredBy'[id] = Append(answeredBy[id], line)
                        /\ settled'[id] = Append(settled[id], Outcome(line))
       /\ \A id \in RequestIds :
            (settled'[id] # settled[id] /\ answeredBy'[id] = answeredBy[id]) =>
                (id \in pendingRequests /\ settled'[id] = Append(settled[id], "timeout"))
       /\ \A id \in pendingRequests \ pendingRequests' : settled'[id] # settled[id]
      ]_vars

\* two requests in flight, written in the order 1, 2: the second has been
\* answered, with an error, and the first is still pending
C17_AnsweredOutOfOrder ==
    /\ requestId = 2
    /\ wire = <<1, 2>>
    /\ pendingRequests = {1}
    /\ settled[1] = <<>>
    /\ settled[2] = <<"rejected">>
    /\ answeredBy[2] = <<[json |-> TRUE, id |-> 2, error |-> TRUE]>>
    /\ fired = {}

\* a request with the method was written before position p of the wire
WrittenBefore(p, method) ==
    \E q \in 1..(p - 1) : wire[q] # Notification /\ methods[wire[q]] = method

\* C18: the initialize request is the first message written; the notification
\* is written only once the initialize request has been answered with a
\* result, and right after the initialize request; tools/list and tools/call
\* requests are written only after the notification, tools/call only after
\* tools/list; connect resolves only with the tools of the tools/list
\* response stored.
C18_ConnectOrder ==
    /\ \A p \in 1..Len(wire) :
            /\ wire[p] = Notification =>
                    /\ settled[1] = <<"resolved">>
                    /\ p = 2
                    /\ methods[wire[1]] = "initialize"
            /\ (wire[p] # Notification /\ methods[wire[p]] = "initialize") => p = 1
            /\ (wire[p] # Notification /\ methods[wire[p]] # "initialize") =>
                    /\ settled[1] = <<"resolved">>
                    /\ \E q \in 1..(p - 1) : wire[q] = Notification
            /\ (wire[p] # Notification /\ methods[wire[p]] = "tools/call") =>
                    WrittenBefore(p, "tools/list")
    /\ connectOutcome = "resolved" =>
            /\ tools = "stored"
            /\ Len(methods) >= 2
            /\ methods[2] = "tools/list"
            /\ settled[2] = <<"resolved">>

\* connect resolved and run sent a tools/call request: four messages written
C18_ConnectedAndCalled ==
    /\ connectOutcome = "resolved"
    /\ wire = <<1, Notification, 2, 3>>
    /\ methods = <<"initialize", "tools/list", "tools/call">>
    /\ tools = "stored"

\* the ceiling the budget pass clamps the content of entry i to
CeilingOf(i) ==
    IF messages[i].role = "tool" THEN options.maxToolResultChars
    ELSE IF messages[i].role = "assistant" THEN options.maxAssistantMessageChars
    ELSE IF i = 2 THEN InitialUserLimit
    ELSE UserLimit

Ended == sessionPc \in {"returned", "threw", "connectFailed"}

\* C20: when a session has ended, by run returning or throwing or by connect
\* failing, disconnect has been executed by the finally block and the client
\* holds no process; when the signal fired during the session the abort
\* handler has disconnected; a disconnect that finds no process does nothing,
\* so the process is killed at most once.
C20_AlwaysDisconnected ==
    /\ Ended =>
            /\ process = "null"
            /\ Len(disconnects) >= 1
            /\ disconnects[Len(disconnects)].by = "finally"
            /\ Cardinality({k \in 1..Len(disconnects) : disconnects[k].by = "finally"}) = 1
    /\ signalAborted =>
            /\ process = "null"
            /\ \E k \in 1..Len(disconnects) : disconnects[k].by = "abort"
    /\ kills = Cardinality({k \in 1..Len(disconnects) : disconnects[k].held})
    /\ kills <= 1
    /\ \A k \in 2..Len(disconnects) : ~disconnects[k].held

\* the signal fired during run: the abort handler disconnected, run threw and
\* the finally block disconnected again, finding no process
C20_AbortThenFinally ==
    /\ sessionPc = "threw"
    /\ signalAborted
    /\ disconnects = <<[by |-> "abort", held |-> TRUE], [by |-> "finally", held |-> FALSE]>>
    /\ kills = 1
    /\ process = "null"

\* the terminal state of run
Terminal == pc \in {"returned", "thrown"}

\* C21: when the model calls and tool dispatches settle, a run that was
\* started reaches a terminal state (a text, the cancellation message, the
\* maximum-turns message, or a throw) and stays in it; the turn counter never
\* exceeds maxTurns; with maxTurns = 0 no model call is made.
C21_RunTerminates ==
    /\ [](turnCount <= options.maxTurns)
    /\ [](options.maxTurns = 0 => modelCalls = 0)
    /\ [](Terminal =>
            \/ pc = "thrown" /\ result = NoResult
            \/ pc = "returned" /\ result.kind \in {"text", "cancelled", "max_turns"})
    /\ (pc # "idle") ~> []Terminal

\* a run ended in its last allowed turn, the longest the bounds admit
C21_EndedInLastTurn ==
    /\ Terminal
    /\ options.maxTurns = FairTurns
    /\ turnCount = FairTurns
    /\ result.kind = "text"

\* C22 as stated: when the signal is aborted once a turn's tool dispatch has
\* completed, run returns the cancellation message, for every maxTurns >= 1,
\* also when that turn was the last one allowed.
C22_CancelWinsOverMaxTurns ==
    [][(/\ pc = "loopTop"
        /\ aborted
        /\ turnCount >= 1
        /\ options.maxTurns >= 1
        /\ pc' # "loopTop")
       => (pc' = "returned" /\ result' = Cancelled)]_vars

ToolEntryCount(msgs) == Cardinality({i \in 1..Len(msgs) : msgs[i].role = "tool"})

C24_ParseFailureInvokesNothing ==
    teCall.arguments \notin ValidJsonTexts =>
        /\ teInvoked = NotInvoked
        /\ tePc \in {"idle", "start", "done"}
        /\ tePc = "done" =>
              teOutcome = TeResolved(teCall, ParseErrorText \o teCall.arguments)

\* a call to a listed MCP tool with broken arguments was answered with the
\* parse error text
C24_BrokenArgumentsAnswered ==
    /\ tePc = "done"
    /\ teCall.name = ExposedName(<<"x">>)
    /\ teCall.arguments = ArgsBroken
    /\ teInvoked = NotInvoked
    /\ teOutcome.content = ParseErrorText \o ArgsBroken

\* C25: routing is decided by the name prefix alone. A name starting with ado_
\* goes to the subprocess client with the prefix stripped, so every name
\* exposed by getToolsAsOpenAIFunctions routes back to the MCP tool it was built
\* from; a name starting with local_ goes to the local tools; any other name
\* yields an error result and neither subsystem is invoked.
C25_RoutedByPrefix ==
    (teCall.arguments \in ValidJsonTexts /\ tePc \in {"await", "done"}) =>
        /\ StartsWith(teCall.name, AdoPrefix) =>
              /\ teInvoked = [target |-> "mcp",
                              name |-> SubSeq(teCall.name, 5, Len(teCall.name))]
              /\ \A tool \in McpToolNames :
                    teCall.name = ExposedName(tool) =>
                        teInvoked = [target |-> "mcp", name |-> tool]
        /\ (~StartsWith(teCall.name, AdoPrefix) /\ StartsWith(teCall.name, LocalPrefix)) =>
              teInvoked = [target |-> "local", name |-> teCall.name]
        /\ (~StartsWith(teCall.name, AdoPrefix) /\ ~StartsWith(teCall.name, LocalPrefix)) =>
              /\ teInvoked = NotInvoked
              /\ tePc = "done"
              /\ teOutcome = TeResolved(teCall, UnknownPrefixText \o teCall.name)

\* the exposed name of an MCP tool called local_... was routed to the
\* subprocess client under the tool's own name
C25_ExposedNameRoutedBack ==
    /\ tePc = "done"
    /\ teCall.name = ExposedName(NameLocal)
    /\ teInvoked = [target |-> "mcp", name |-> NameLocal]
    /\ teOutcome.state = "resolved"

\* C26: the request ids of one client are strictly increasing, so no two
\* requests share an id, and an id is in pendingRequests only between the
\* sending of its request and its settlement: once removed by a response or a
\* timeout it is never added again.
C26_IdsFreshAndPendingOnce ==
    /\ [](/\ pendingRequests \subseteq 1..requestId
          /\ \A id \in pendingRequests : settled[id] = <<>>
          /\ \A i, j \in 1..Len(wire) : i < j => wire[i] < wire[j])
    /\ [][/\ requestId' >= requestId
          /\ \A id \in pendingRequests' \ pendingRequests :
                /\ id = requestId'
                /\ id > requestId
                /\ settled[id] = <<>>
          /\ \A id \in pendingRequests \ pendingRequests' :
                Len(settled'[id]) = Len(settled[id]) + 1]_vars

\* two requests were sent; one was removed by its response, the other by its
\* timeout
C26_BothRemoved ==
    /\ requestId = 2
    /\ pendingRequests = {}
    /\ settled[1] = <<"resolved">>
    /\ settled[2] = <<"timeout">>
    /\ wire = <<1, 2>>

\* the bytes delivered so far
Received == SubSeq(outStream, 1, Len(outStream) - Len(unread))

RECURSIVE Flatten(_)
Flatten(groups) == IF groups = <<>> THEN <<>> ELSE Head(groups) \o Flatten(Tail(groups))

\* the texts handed to JSON.parse when the bytes arrive in one data event, and
\* the buffer after it
ParsedAtOnce(bytes) ==
    LET lines == Split(Decode(bytes))
    IN ToParse(SubSeq(lines, 1, Len(lines) - 1))
BufferAtOnce(bytes) ==
    LET lines == Split(Decode(bytes))
    IN lines[Len(lines)]

\* C27 as stated: what handleData handles depends only on the bytes received,
\* not on how they are split into data events: whatever the split, the texts
\* parsed are those of the complete lines received, each once and in order,
\* and the buffer holds the partial line at the end of the bytes received.
C27_SplitIndependent ==
    Len(unread) < Len(outStream) =>
        /\ Flatten(parsed) = ParsedAtOnce(Received)
        /\ buffer = BufferAtOnce(Received)

\* the texts handed to JSON.parse by the data event of a step
ParsedByStep == IF parsed' # parsed THEN parsed'[Len(parsed')] ELSE <<>>

\* the requests in flight that a text of the step answers
AnsweredByStep ==
    {id \in pendingRequests :
        \E i \in 1..Len(ParsedByStep) : StartsWith(ParsedByStep[i], IdOpen \o ToDigits(id))}

\* C28: a line of the child's output that is not valid JSON is skipped without
\* any effect: it removes nothing from pendingRequests and settles no request,
\* and the valid lines before and after it in the same chunk are processed.
C28_BadLineSkipped ==
    [][/\ pendingRequests' = pendingRequests \ AnsweredByStep
       /\ \A id \in RequestIds :
             Len(settled'[id]) = Len(settled[id]) + (IF id \in AnsweredByStep THEN 1 ELSE 0)]_vars

\* one data event carried a response, a line that is not JSON and another
\* response; both requests were settled
C28_ResponsesAroundNoise ==
    /\ parsed = <<<<Decode(RespResult), Noise, Trim(RespError)>>>>
    /\ unread = <<>>
    /\ pendingRequests = RequestIds \ {1, 2}
    /\ settled[1] = <<"resolved">>
    /\ settled[2] = <<"rejected">>

\* C29: the exit of the child process, with any exit code, leaves
\* pendingRequests unchanged and settles no request; a request in flight at
\* that moment keeps its timer, and when no response settles it, it is
\* rejected later by that timer, which does fire.
C29_ExitSettlesNothing ==
    /\ [][(process = "alive" /\ process' = "exited")
          => (/\ pendingRequests' = pendingRequests
              /\ settled' = settled
              /\ timers' = timers
              /\ fired' = fired)]_vars
    /\ [](\A id \in inFlightAtExit :
             \/ id \in pendingRequests /\ id \in timers /\ settled[id] = <<>>
             \/ id \notin pendingRequests /\ Len(settled[id]) = 1)
    /\ [][\A id \in inFlightAtExit :
             (settled'[id] # settled[id] /\ answeredBy'[id] = answeredBy[id])
                => (/\ settled'[id] = <<"timeout">>
                    /\ id \in timers
                    /\ id \notin timers')]_vars
    /\ \A id \in RequestIds :
          (process = "exited" /\ id \in inFlightAtExit /\ id \in pendingRequests)
             ~> (id \notin pendingRequests /\ Len(settled[id]) = 1)

\* a request that was in flight when the child exited was rejected by its
\* timeout while the exited process was still held
C29_TimedOutAfterExit ==
    /\ process = "exited"
    /\ \E id \in inFlightAtExit :
          /\ settled[id] = <<"timeout">>
          /\ id \in fired
          /\ \E k \in 1..Len(wire) : wire[k] = id

\* the text executeToolCall returns for an ado_ call whose request timed out
TimeoutResult(call) ==
    [tool_call_id |-> call.id,
     content |-> ErrorExecutingText \o call.name \o <<":", " ">> \o TimeoutMessage]

\* the current call is an ado_ call whose tools/call request timed out
CallTimedOut ==
    /\ teInvoked.target = "mcp"
    /\ teCall = response.toolCalls[Len(results) + 1]
    /\ settled[requestId] = <<"timeout">>

\* C30: when a tools/call request times out during a turn, only that call is
\* affected: the router turns the rejection into an error-text tool result
\* that is appended to the transcript, the remaining calls of the turn are
\* still dispatched, the child process is not terminated, and run goes on with
\* the next turn and does not throw.
C30_TimeoutIsToolResult ==
    /\ [](pc # "thrown" /\ process = "alive" /\ teOutcome.state # "rejected")
    /\ [][\A id \in DispatchIds :
            (Len(settled'[id]) > Len(settled[id]) /\ settled'[id] = <<"timeout">>)
               => (/\ pendingRequests' = pendingRequests \ {id}
                   /\ \A other \in DispatchIds \ {id} : settled'[other] = settled[other]
                   /\ timers' = timers \ {id}
                   /\ pc' = pc
                   /\ results' = results
                   /\ messages' = messages)]_vars
    /\ [][(pc = "awaitTools" /\ Len(results) < Len(response.toolCalls) /\ CallTimedOut
           /\ results' # results)
          => (/\ results' = Append(results, TimeoutResult(teCall))
              /\ IF Len(results') < Len(response.toolCalls)
                 THEN /\ pc' = "awaitTools"
                      /\ dispatched'[Len(dispatched')] =
                            [kind |-> "start", id |-> response.toolCalls[Len(results') + 1].id]
                 ELSE /\ pc' = "loopTop"
                      /\ messages'[Len(messages')] =
                            Message("tool", TRUE,
                                    boundContent(TimeoutResult(teCall).content,
                                                 options.maxToolResultChars,
                                                 LabelToolResult),
                                    <<>>, teCall.id))]_vars
    /\ [](pc = "loopTop" /\ turnCount >= 1 =>
            /\ Len(results) = Len(response.toolCalls)
            /\ \A i \in 1..Len(results) :
                  LET entry == messages[Len(messages) - Len(results) + i]
                  IN /\ entry.role = "tool"
                     /\ entry.tool_call_id = response.toolCalls[i].id
                     /\ entry.content = boundContent(results[i].content,
                                                     options.maxToolResultChars,
                                                     LabelToolResult))
    /\ [][(pc = "loopTop" /\ turnCount >= 1 /\ turnCount < options.maxTurns /\ pc' # pc)
          => (pc' = "awaitModel" /\ turnCount' = turnCount + 1
              /\ modelCalls' = modelCalls + 1)]_vars

\* the first call of turn 1 timed out, the second was answered, and run made
\* the model call of turn 2 with both tool entries in the transcript
C30_NextTurnAfterTimeout ==
    /\ pc = "awaitModel"
    /\ turnCount = 2
    /\ settled[3] = <<"timeout">>
    /\ settled[4] = <<"resolved">>
    /\ process = "alive"
    /\ results[1] = TimeoutResult(history[1].toolCalls[1])
    /\ results[2].content = ShortText
    /\ sent[Len(sent) - 1].role = "tool"
    /\ sent[Len(sent) - 1].tool_call_id = <<1, 1>>
    /\ sent[Len(sent)].tool_call_id = <<1, 2>>

\* ---------------------------------------------------------------------------
\* C31: the list of tool calls returned by chatCompletionStream is ordered by
\* ascending tool-call index, whatever the order in which the indices first
\* arrived.  The comparator of the sort returns 0 for every pair, so the list
\* keeps the insertion order of toolCallsMap.
C31_OrderedByIndex ==
    streamPc = "done" =>
        /\ Len(streamOut.toolCalls) = Len(toolCallsMap)
        /\ \A j, k \in 1..Len(toolCallsMap) :
                j < k => toolCallsMap[j].index < toolCallsMap[k].index

\* a step of run in which the catch of the model call compacts the transcript
CompactionStep == pc = "awaitModel" /\ ~retriedForContext /\ retriedForContext'

\* the text clamped to the compaction ceiling
CompactClamp(message) ==
    IF message.isString
    THEN [message EXCEPT !.content =
            boundContent(message.content, CompactLimit, LabelRoleMessage(message.role))]
    ELSE message

\* C32: compaction of a transcript of more than 2 entries yields the system
\* entry followed by the last 8 entries of the previous transcript (all of the
\* non-system entries when there are fewer than 8), each clamped to the
\* 4,000-character ceiling, and nothing else; a transcript of at most 2
\* entries is left unchanged.
C32_CompactionYieldsSystemAndTail ==
    [][CompactionStep =>
        LET n == Len(messages)
            kept == Min(CompactTailCount, n - 1)
            last == SubSeq(messages, n - kept + 1, n)
        IN messages' = IF n <= 2 THEN messages
                       ELSE <<messages[1]>> \o [i \in 1..kept |-> CompactClamp(last[i])]]_vars

\* the number of system entries of a transcript
SystemEntryCount(msgs) == Cardinality({i \in 1..Len(msgs) : msgs[i].role = "system"})

\* C36: compaction never increases the number of transcript entries and never
\* duplicates an entry: after it the transcript holds exactly one system
\* entry, at index 0, for every transcript length.
C36_CompactionKeepsOneSystemEntry ==
    [][CompactionStep =>
        /\ Len(messages') <= Len(messages)
        /\ messages'[1].role = "system"
        /\ SystemEntryCount(messages') = 1]_vars

\* a step of run in which the budget pass of a turn runs
BudgetStep == pc = "loopTop" /\ pc' = "awaitModel"

\* b is the entry a, possibly with clamped texts
SameEntry(a, b) ==
    /\ a.role = b.role
    /\ a.isString = b.isString
    /\ a.tool_call_id = b.tool_call_id
    /\ Len(a.tool_calls) = Len(b.tool_calls)
    /\ \A i \in 1..Len(a.tool_calls) :
            /\ a.tool_calls[i].id = b.tool_calls[i].id
            /\ a.tool_calls[i].name = b.tool_calls[i].name

\* after is before without some entries, in the same order
SameEntries(before, after) ==
    /\ Len(before) = Len(after)
    /\ \A i \in 1..Len(before) : SameEntry(before[i], after[i])

\* C33: budget passes and compaction change the transcript only by removing
\* entries: they never reorder or add entries, and the removed entries are
\* the oldest of the non-protected ones, so that the two protected entries
\* followed by the newest entries remain, in their order.
C33_OnlyOldestRemoved ==
    [][BudgetStep \/ CompactionStep =>
        \E k \in 2..Len(messages) :
            SameEntries(<<messages[1], messages[2]>> \o SubSeq(messages, k + 1, Len(messages)),
                        messages')]_vars

\* C34: the tool-call-completed callback of chatCompletionStream is invoked
\* only after the stream has ended, exactly once per tool call of the returned
\* list and in the order of that list, with the complete argument text: no
\* call is handed to the callback while fragments may still arrive.
C34_NotifiedOnceAfterEnd ==
    /\ streamPc = "reading" => notified = <<>> /\ streamOut = NoResponse
    /\ streamPc = "done" =>
        /\ notified = streamOut.toolCalls
        /\ \A k \in 1..Len(notified) :
                notified[k].arguments = arrived[toolCallsMap[k].index]

\* two tool calls were handed over, one of them assembled from two fragments
C34_TwoCallsNotified ==
    /\ streamPc = "done"
    /\ Len(notified) = 2
    /\ \E k \in 1..2 : notified[k].arguments = <<"{", "}">> /\ toolCallsMap[k].index = 1
    /\ stream = MaxDeltas

\* C35: run returns the cancellation message only if the abort signal has been
\* aborted: an error thrown while the signal is not aborted is propagated as a
\* thrown error, never reported as a cancellation.
C35_CancelledOnlyIfAborted ==
    /\ (pc = "returned" /\ result = Cancelled) => aborted
    /\ (failures # <<>> /\ ~failures[Len(failures)].retried /\ ~aborted) => pc = "thrown"

\* C37: budget enforcement never removes the most recently appended entry:
\* after the pass the last entry of the transcript is the entry that was last
\* before it, possibly clamped, and it is part of the transcript sent in the
\* model call that follows.
C37_LastEntryKept ==
    [][BudgetStep =>
        LET n == Len(messages)
            old == messages[n]
            new == messages'[Len(messages')]
        IN /\ SameEntry(old, new)
           /\ \E i \in 1..n :
                \/ new = shrinkMessage(old, i, FALSE)
                \/ \E j \in 1..n : new = shrinkMessage(shrinkMessage(old, i, FALSE), j, TRUE)
           /\ sent' = messages']_vars

\* the budget pass of turn 2 removed entries and the tool result of turn 1 is
\* the last entry of what was sent
C37_PrunedButLatestSent ==
    /\ pc = "awaitModel"
    /\ turnCount = 2
    /\ ~retriedForContext
    /\ Len(sent) <= 3
    /\ sent[Len(sent)].role = "tool"
    /\ sent[Len(sent)].tool_call_id = results[Len(results)].tool_call_id

\* C38: clamping affects only what is stored in the transcript, never what is
\* executed: every tool call is handed to executeToolCall with the argument
\* text exactly as the model emitted it, also when that text exceeds
\* maxToolCallArgsChars and its copy in the transcript is truncated.
C38_DispatchedAsEmitted ==
    tePc # "idle" =>
        \E h \in 1..Len(history) :
            \E k \in 1..Len(history[h].toolCalls) : teCall = history[h].toolCalls[k]

\* a call whose arguments exceed maxToolCallArgsChars is executed with its
\* whole argument text while the assistant entry holds the truncated copy
C38_LongArgumentsDispatched ==
    /\ pc = "awaitTools"
    /\ tePc = "await"
    /\ teCall.arguments = ArgsLong
    /\ Len(ArgsLong) > options.maxToolCallArgsChars
    /\ LET entry == messages[Len(messages)]
       IN /\ entry.role = "assistant"
          /\ entry.tool_calls[2].id = teCall.id
          /\ entry.tool_calls[2].arguments
                = boundContent(ArgsLong, options.maxToolCallArgsChars,
                               LabelToolCallArgs(teCall.name))
          /\ entry.tool_calls[2].arguments # ArgsLong

\* the terminal event types
TerminalTypes == {"complete", "canceled", "max_turns"}

\* the positions of the events of the given types
EventsOf(types) == {p \in 1..Len(events) : events[p].type \in types}

\* C39: in every run the event sequence is one start event first; turn events
\* numbered 1, 2, ... in this order and never above maxTurns; and, when run
\* returns, exactly one terminal event (complete, canceled or max_turns) as
\* the last event, matching the returned value.  A run that throws, or that
\* has not returned, has emitted no terminal event.
C39_EventSequence ==
    /\ pc = "idle" => events = <<>>
    /\ pc # "idle" => EventsOf({"start"}) = {1}
    /\ \A p \in EventsOf({"turn"}) :
            /\ events[p].turn = Cardinality({q \in EventsOf({"turn"}) : q <= p})
            /\ events[p].turn <= options.maxTurns
            /\ events[p].maxTurns = options.maxTurns
    /\ Cardinality(EventsOf({"turn"})) = turnCount
    /\ pc = "returned" =>
            /\ EventsOf(TerminalTypes) = {Len(events)}
            /\ LET last == events[Len(events)]
               IN /\ result.kind = "text" <=> last.type = "complete"
                  /\ result.kind = "cancelled" <=> last.type = "canceled"
                  /\ result.kind = "max_turns" <=> last.type = "max_turns"
                  /\ last.type = "complete" => last.result = result.text
    /\ pc # "returned" => EventsOf(TerminalTypes) = {}

\* a run of two turns that ended with the max_turns event
C39_TwoTurnsThenMaxTurns ==
    /\ pc = "returned"
    /\ result = MaxTurnsReached
    /\ options.maxTurns = 2
    /\ Cardinality(EventsOf({"turn"})) = 2
    /\ events[Len(events)].type = "max_turns"

\* C40: in the GUI server at most one investigation runs at any time, under
\* every interleaving of request handlers, and isInvestigating and
\* activeAbortController describe the investigation that is running, so that
\* a stop request aborts it.
C40_AtMostOneInvestigation ==
    /\ Cardinality(Running) <= 1
    /\ isInvestigating <=> Running # {}
    /\ Running # {} => activeAbortController \in Running
    /\ stopReply.running # {} => stopReply.stopped

====
